---- MODULE Spec2Model ----
(***************************************************************************)
(* A model of the DeFi portfolio tracker: the price source of              *)
(* src/utils/api.ts (cache, rate limiter, fallback table), the position    *)
(* readers of src/utils/web3.ts and the aggregation of src/app/page.tsx.   *)
(*                                                                         *)
(* Encoding of numbers.  JavaScript numbers are modelled as exact          *)
(* fixed-point integers:                                                   *)
(*   - a USD price is a count of cents (3200 is Usd(3200, 0), 24.2 is      *)
(*     Usd(24, 20));                                                       *)
(*   - a token amount is a count of thousandths of a token;                *)
(*   - a USD value or yield is a record [d, f] of whole dollars and        *)
(*     1/100000 dollars, so that amount * price needs no rounding and a    *)
(*     total does not leave the range of the model checker's integers.     *)
(* Time is in milliseconds, as Date.now() gives it.                        *)
(***************************************************************************)
EXTENDS Integers, Sequences, FiniteSets, TLC

VARIABLES
    now,              \* Date.now(): the wall clock, in ms
    cache,            \* api.ts `cache`: key -> [data, timestamp]
    lastRequestTime,  \* api.ts `lastRequestTime`
    calls,            \* the fetchTokenPrices invocations, one per caller
    reader,           \* one call of a position reader: its input and output
    agg,              \* one run of fetchRealData: its position and locals
    isConnected,      \* page.tsx useState, line 45
    walletAddress,    \* line 46
    portfolioData,    \* lines 47-52
    isLoading,        \* line 53
    dataSource,       \* line 54
    connecting,       \* a connectWallet awaiting the wallet: the dataSource of its render
    runs,             \* the invocations of fetchPortfolioData in flight
    op                \* one call of an exported operation: its input and output

priceVars == <<now, cache, lastRequestTime, calls>>
readerVars == <<reader>>
aggVars == <<agg>>
uiVars == <<isConnected, walletAddress, portfolioData, isLoading, dataSource,
            connecting, runs>>

opVars == <<op>>

vars == <<priceVars, readerVars, aggVars, uiVars, opVars>>

\* what the actions of one component leave alone
nonPriceVars == <<readerVars, aggVars, uiVars, opVars>>
nonReaderVars == <<priceVars, aggVars, uiVars, opVars>>
nonAggVars == <<priceVars, readerVars, uiVars, opVars>>
nonUiVars == <<priceVars, readerVars, aggVars, opVars>>
nonOpVars == <<priceVars, readerVars, aggVars, uiVars>>

(***************************************************************************)
(* Bounds of the model                                                     *)
(***************************************************************************)
NumCallers == 3
MaxNfts == 11
MaxDetailFailures == 2
MaxAggNfts == 2
MaxRuns == 2
StartTime == 1000000

Callers == 1..NumCallers

(***************************************************************************)
(* api.ts: constants                                                       *)
(***************************************************************************)
MIN_REQUEST_INTERVAL == 1000
CACHE_DURATION == 5 * 60 * 1000

Usd(dollars, cents) == dollars * 100 + cents

PriceRow(p) == [usd |-> p, usd_24h_change |-> 0]

fallbackPrices ==
    ("ethereum" :> PriceRow(Usd(3200, 0))) @@
    ("uniswap" :> PriceRow(Usd(24, 20))) @@
    ("aave" :> PriceRow(Usd(85, 50))) @@
    ("compound-governance-token" :> PriceRow(Usd(45, 20))) @@
    ("dai" :> PriceRow(Usd(1, 0))) @@
    ("tether" :> PriceRow(Usd(1, 0))) @@
    ("weth" :> PriceRow(Usd(3200, 0)))

\* Array.prototype.join
RECURSIVE join(_, _)
join(ids, sep) ==
    IF ids = <<>> THEN ""
    ELSE IF Len(ids) = 1 THEN ids[1]
    ELSE ids[1] \o sep \o join(Tail(ids), sep)

\* a key that does not depend on the order of the ids
cacheKeyUnordered(ids) ==
    "prices_" \o join(SelectSeq(<<"ethereum", "uniswap", "aave",
                                  "compound-governance-token", "dai", "tether",
                                  "weth">>,
                                LAMBDA x : \E i \in DOMAIN ids : ids[i] = x), ",")

cacheKey(tokenIds) == "prices_" \o join(tokenIds, ",")

(***************************************************************************)
(* The environment: the id sequences callers ask for and the tables the    *)
(* price endpoint answers with.                                            *)
(***************************************************************************)
IdSeqs == { <<"ethereum", "uniswap">>, <<"uniswap", "ethereum">> }

Range(s) == { s[i] : i \in DOMAIN s }

NetLevels == { Usd(3000, 0), Usd(3100, 50) }

\* A response of the endpoint for `ids`: one row per requested id.
NetTables(ids) == { [i \in Range(ids) |-> PriceRow(p)] : p \in NetLevels }

NoData == [none |-> TRUE]
EmptyMap == [k \in {} |-> NoData]

\* One invocation of fetchTokenPrices.  startedAt, wakeAt and issuedAt are the
\* times of its entry, of the end of its rate-limit sleep and of its request;
\* via records how it ended: from the cache, with the network's response, or
\* with a failed request.
IdleCall ==
    [pc |-> "idle", ids |-> <<>>, startedAt |-> 0, wakeAt |-> 0, issuedAt |-> 0,
     outcome |-> "pending", via |-> "none", result |-> NoData]

Ended(call, how, value) ==
    [IdleCall EXCEPT !.pc = "done", !.ids = call.ids, !.outcome = how[1],
                     !.via = how[2], !.result = value]

InitPrice ==
    /\ now = StartTime
    /\ cache = EmptyMap
    /\ lastRequestTime = 0
    /\ calls = [c \in Callers |-> IdleCall]

(***************************************************************************)
(* api.ts fetchTokenPrices, cut at its await points                        *)
(***************************************************************************)
CacheHitInclusive(key, t) ==
    /\ key \in DOMAIN cache
    /\ t - cache[key].timestamp <= CACHE_DURATION

\* line 70: cached && Date.now() - cached.timestamp < CACHE_DURATION
CacheHit(key, t) ==
    /\ key \in DOMAIN cache
    /\ t - cache[key].timestamp < CACHE_DURATION

\* a delay that stops half an interval short
RateLimitDelayShort(t, last) ==
    IF t - last < MIN_REQUEST_INTERVAL \div 2
    THEN MIN_REQUEST_INTERVAL \div 2 - (t - last)
    ELSE 0

\* lines 76-79: how long the call sleeps before it may issue its request
RateLimitDelay(t, last) ==
    IF t - last < MIN_REQUEST_INTERVAL
    THEN MIN_REQUEST_INTERVAL - (t - last)
    ELSE 0

\* lines 80-93: lastRequestTime = Date.now(), then axios.get is issued
IssueRequest(c, call) ==
    /\ lastRequestTime' = now
    /\ calls' = [calls EXCEPT ![c] =
                    [call EXCEPT !.pc = "inflight", !.wakeAt = 0,
                                 !.issuedAt = now]]

\* a hit that answers with the fallback table
ReturnCachedFallback(c, call) ==
    /\ calls' = [calls EXCEPT ![c] =
                    Ended(call, <<"resolved", "cache">>, fallbackPrices)]
    /\ UNCHANGED <<cache, lastRequestTime>>

ReturnCachedTouching(c, call) ==
    /\ calls' = [calls EXCEPT ![c] =
                    Ended(call, <<"resolved", "cache">>,
                          cache[cacheKey(call.ids)].data)]
    /\ lastRequestTime' = now
    /\ UNCHANGED cache

\* lines 70-73: what a hit returns
ReturnCached(c, call) ==
    /\ calls' = [calls EXCEPT ![c] =
                    Ended(call, <<"resolved", "cache">>,
                          cache[cacheKey(call.ids)].data)]
    /\ UNCHANGED <<cache, lastRequestTime>>

\* lines 64-93 up to the first await.  Callers are interchangeable, so they
\* enter in the order of their numbers.
FetchTokenPricesStart(c, tokenIds) ==
    /\ calls[c].pc = "idle"
    /\ \A b \in Callers : b < c => calls[b].pc /= "idle"
    /\ LET call == [IdleCall EXCEPT !.ids = tokenIds, !.startedAt = now]
           wait == RateLimitDelay(now, lastRequestTime)
       IN  IF CacheHit(cacheKey(tokenIds), now)
           THEN ReturnCached(c, call)
           ELSE IF wait > 0
                THEN /\ calls' = [calls EXCEPT ![c] =
                                    [call EXCEPT !.pc = "waiting",
                                                 !.wakeAt = now + wait]]
                     /\ UNCHANGED <<cache, lastRequestTime>>
                ELSE /\ IssueRequest(c, call)
                     /\ UNCHANGED cache
    /\ UNCHANGED now
    /\ UNCHANGED nonPriceVars

\* lines 78-93: the delay timer has fired
FetchTokenPricesWake(c) ==
    /\ calls[c].pc = "waiting"
    /\ now >= calls[c].wakeAt
    /\ IssueRequest(c, calls[c])
    /\ UNCHANGED <<now, cache>>
    /\ UNCHANGED nonPriceVars

\* a store that drops every other entry
FetchTokenPricesResponseEvicting(c, data) ==
    /\ calls[c].pc = "inflight"
    /\ cache' = (cacheKey(calls[c].ids) :> [data |-> data, timestamp |-> now])
    /\ calls' = [calls EXCEPT ![c] =
                    Ended(calls[c], <<"resolved", "network">>, data)]
    /\ UNCHANGED <<now, lastRequestTime>>
    /\ UNCHANGED nonPriceVars

\* lines 95-98: the response arrived
FetchTokenPricesResponse(c, data) ==
    /\ calls[c].pc = "inflight"
    /\ cache' = (cacheKey(calls[c].ids) :> [data |-> data, timestamp |-> now])
                    @@ cache
    /\ calls' = [calls EXCEPT ![c] =
                    Ended(calls[c], <<"resolved", "network">>, data)]
    /\ UNCHANGED <<now, lastRequestTime>>
    /\ UNCHANGED nonPriceVars

CatchRethrows(call) == Ended(call, <<"rejected", "failed">>, NoData)

\* lines 99-114: the catch block, entered with the request's error
Catch(call) == Ended(call, <<"resolved", "failed">>, fallbackPrices)

FetchTokenPricesErrorCaching(c) ==
    /\ calls[c].pc = "inflight"
    /\ calls' = [calls EXCEPT ![c] = Catch(calls[c])]
    /\ cache' = (cacheKey(calls[c].ids) :>
                    [data |-> fallbackPrices, timestamp |-> now]) @@ cache
    /\ UNCHANGED <<now, lastRequestTime>>
    /\ UNCHANGED nonPriceVars

\* lines 84-93 rejecting (network error, timeout, bad status), then 99-114
FetchTokenPricesError(c) ==
    /\ calls[c].pc = "inflight"
    /\ calls' = [calls EXCEPT ![c] = Catch(calls[c])]
    /\ UNCHANGED <<now, lastRequestTime, cache>>
    /\ UNCHANGED nonPriceVars

\* a clearCache that also resets the rate-limit clock
clearCacheResetting ==
    /\ cache /= EmptyMap
    /\ cache' = EmptyMap
    /\ lastRequestTime' = 0
    /\ UNCHANGED <<now, calls>>
    /\ UNCHANGED nonPriceVars

\* lines 268-271
clearCache ==
    /\ cache /= EmptyMap
    /\ cache' = EmptyMap
    /\ UNCHANGED <<now, lastRequestTime, calls>>
    /\ UNCHANGED nonPriceVars

\* lines 273-278
getCacheStats == [size |-> Cardinality(DOMAIN cache), entries |-> DOMAIN cache]

(***************************************************************************)
(* The clock.  It moves forward through a few instants chosen so that both *)
(* thresholds are met exactly, missed by half an interval and passed by    *)
(* half an interval.                                                       *)
(***************************************************************************)
HalfInterval == MIN_REQUEST_INTERVAL \div 2
Instants ==
    { StartTime + d : d \in { 0, HalfInterval, MIN_REQUEST_INTERVAL,
                              CACHE_DURATION, CACHE_DURATION + HalfInterval } }

AdvanceTime(t) ==
    /\ t > now
    /\ now' = t
    /\ UNCHANGED <<cache, lastRequestTime, calls>>
    /\ UNCHANGED nonPriceVars

NextPrice ==
    \/ \E c \in Callers, ids \in IdSeqs : FetchTokenPricesStart(c, ids)
    \/ \E c \in Callers : FetchTokenPricesWake(c)
    \/ \E c \in Callers : \E data \in NetTables(calls[c].ids) :
           FetchTokenPricesResponse(c, data)
    \/ \E c \in Callers : FetchTokenPricesError(c)
    \/ \E t \in Instants : AdvanceTime(t)


(***************************************************************************)
(* Decimal strings and on-chain amounts                                    *)
(*                                                                         *)
(* A decimal string such as "1.5" is the record [whole |-> 1, frac |->     *)
(* <<5>>]; '0' has no fractional digits and "0.0" has one.  An on-chain    *)
(* amount (an ethers BigNumber of 18-decimal base units) is modelled in    *)
(* units of 10^15 base units, that is thousandths of a token, so that      *)
(* formatUnits(x, 18) and formatEther(x) have three fractional digits.     *)
(***************************************************************************)
Str(w, f) == [whole |-> w, frac |-> f]

Digit(f, i) == IF i <= Len(f) THEN f[i] ELSE 0

\* parseFloat of a decimal string, in thousandths
parseFloat(s) == s.whole * 1000 + Digit(s.frac, 1) * 100 + Digit(s.frac, 2) * 10 + Digit(s.frac, 3)

\* ethers.utils.formatUnits(x, 18): trailing zeros dropped, one digit kept
formatUnits(x) ==
    LET r == x % 1000
        d1 == r \div 100
        d2 == (r \div 10) % 10
        d3 == r % 10
    IN  Str(x \div 1000,
            IF d3 /= 0 THEN <<d1, d2, d3>>
            ELSE IF d2 /= 0 THEN <<d1, d2>>
            ELSE <<d1>>)

formatEther(x) == formatUnits(x)

\* USD amounts: dollars and cents; amount (thousandths) times price (cents);
\* the sum of two amounts
Money(dollars, cents) == [d |-> dollars, f |-> cents * 1000]

Zero == Money(0, 0)

Times(amount, price) ==
    [d |-> (amount * price) \div 100000, f |-> (amount * price) % 100000]

Plus(a, b) ==
    [d |-> a.d + b.d + (a.f + b.f) \div 100000, f |-> (a.f + b.f) % 100000]

\* how a chain query ends: it rejects, or it resolves with a value
Fail == [ok |-> FALSE, v |-> 0]
Ok(x) == [ok |-> TRUE, v |-> x]

\* a template literal `${balance} ${symbol}`
Part(qty, unit) == [qty |-> qty, unit |-> unit]

(***************************************************************************)
(* web3.ts: the position readers.  A reader is a function of whether a     *)
(* provider exists and of how each of its chain queries ends.              *)
(***************************************************************************)
\* lines 192-202 (and 173-181: the row pushed for a real position is the same)
UniswapExample ==
    [protocol |-> "Uniswap V3", type |-> "LP Position", token |-> "ETH/USDC",
     amount |-> <<Part(Str(1, <<2>>), "ETH"), Part(Str(3840, <<>>), "USDC")>>,
     value |-> Money(7680, 0), apy |-> 125,
     poolAddress |-> "0x8ad599c3A0ff1De082011EFDDc58f1908eb6e6D8"]

\* lines 264-275
AaveExample ==
    [protocol |-> "Aave", type |-> "Supply", token |-> "USDC",
     amount |-> <<Part(Str(2000, <<>>), "USDC")>>,
     value |-> Money(2000, 0), apy |-> 32, yield |-> Money(64, 0),
     contractAddress |-> "0xBcca60bB61934080951369a648Fb03DF4F96263C"]

\* lines 331-342
CompoundExample ==
    [protocol |-> "Compound", type |-> "Supply", token |-> "ETH",
     amount |-> <<Part(Str(0, <<8>>), "ETH")>>,
     value |-> Money(2560, 0), apy |-> 28, yield |-> Money(71, 68),
     contractAddress |-> "0x4Ddc2D193948926D02f9B1fE9e1daa0718270ED5"]

Min(a, b) == IF a < b THEN a ELSE b

\* the loop bounded by the position count alone, without the cap of 10; an
\* iteration past the described outcomes succeeds
RECURSIVE UniswapLoopUncapped(_, _, _, _)
UniswapLoopUncapped(i, n, detail, acc) ==
    IF i >= n THEN acc
    ELSE LET how == IF i \in DOMAIN detail THEN detail[i] ELSE "ok"
             asked == IF how = "tokenFails"
                      THEN <<<<"tokenOfOwnerByIndex", i>>>>
                      ELSE <<<<"tokenOfOwnerByIndex", i>>, <<"positions", i>>>>
             pushed == IF how = "ok" THEN <<UniswapExample>> ELSE <<>>
         IN  UniswapLoopUncapped(i + 1, n, detail,
                                 [positions |-> acc.positions \o pushed,
                                  queries |-> acc.queries \o asked])

\* lines 167-185: the loop over the position NFTs, from index i on.  detail[i]
\* tells how the two queries of iteration i end.
RECURSIVE UniswapLoop(_, _, _, _)
UniswapLoop(i, n, detail, acc) ==
    IF i >= Min(n, 10) THEN acc
    ELSE LET asked == IF detail[i] = "tokenFails"
                      THEN <<<<"tokenOfOwnerByIndex", i>>>>
                      ELSE <<<<"tokenOfOwnerByIndex", i>>, <<"positions", i>>>>
             pushed == IF detail[i] = "ok" THEN <<UniswapExample>> ELSE <<>>
         IN  UniswapLoop(i + 1, n, detail,
                         [positions |-> acc.positions \o pushed,
                          queries |-> acc.queries \o asked])

\* the loop without its per-iteration try/catch: a failing detail query
\* reaches the catch that returns the example
UniswapNoIsolation(w) ==
    IF ~w.provider
    THEN [threw |-> FALSE, positions |-> <<>>, queries |-> <<>>]
    ELSE IF ~w.count.ok \/ \E i \in DOMAIN w.detail : w.detail[i] /= "ok"
    THEN [threw |-> FALSE, positions |-> <<UniswapExample>>,
          queries |-> <<<<"balanceOf">>>>]
    ELSE LET r == UniswapLoop(0, w.count.v, w.detail,
                              [positions |-> <<>>, queries |-> <<<<"balanceOf">>>>])
         IN  [threw |-> FALSE, positions |-> r.positions, queries |-> r.queries]

\* lines 148-208.  w.provider: getProvider() is not null; w.count: how
\* balanceOf ends, with the number it reports; w.detail: how each iteration
\* of the loop ends.
getUniswapPositions(w) ==
    IF ~w.provider
    THEN [threw |-> FALSE, positions |-> <<>>, queries |-> <<>>]
    ELSE IF ~w.count.ok
    THEN [threw |-> FALSE, positions |-> <<UniswapExample>>,
          queries |-> <<<<"balanceOf">>>>]
    ELSE LET r == UniswapLoop(0, w.count.v, w.detail,
                              [positions |-> <<>>, queries |-> <<<<"balanceOf">>>>])
         IN  [threw |-> FALSE, positions |-> r.positions, queries |-> r.queries]

\* lines 225-229
aaveAssets ==
    << [address |-> "0xC02aaA39b223FE8D0A0e5C4F27eAD9083C756Cc2", symbol |-> "WETH"],
       [address |-> "0xA0b86a33E6441b8C4C4C4C4C4C4C4C4C4C4C4C4C", symbol |-> "USDC"],
       [address |-> "0x6B175474E89094C44Da98b954EedeAC495271d0F", symbol |-> "DAI"] >>

\* lines 235-254: one iteration; data is how getUserReserveData ends, with
\* currentATokenBalance
AaveRow(asset, data) ==
    IF ~data.ok THEN <<>>
    ELSE IF ~(data.v > 0) THEN <<>>
    ELSE LET balance == formatUnits(data.v)
         IN  IF parseFloat(balance) > 1
             THEN << [protocol |-> "Aave", type |-> "Supply",
                      token |-> asset.symbol,
                      amount |-> <<Part(balance, asset.symbol)>>,
                      value |-> Times(parseFloat(balance), Usd(2000, 0)),
                      apy |-> 32,
                      yield |-> Times(parseFloat(balance), Usd(64, 0)),
                      contractAddress |-> asset.address] >>
             ELSE <<>>

\* a loop over the assets that a failing query ends
RECURSIVE AaveLoopAborting(_, _)
AaveLoopAborting(i, reserves) ==
    IF i > Len(aaveAssets) \/ ~reserves[i].ok THEN <<>>
    ELSE AaveRow(aaveAssets[i], reserves[i]) \o AaveLoopAborting(i + 1, reserves)

RECURSIVE AaveLoop(_, _)
AaveLoop(i, reserves) ==
    IF i > Len(aaveAssets) THEN <<>>
    ELSE AaveRow(aaveAssets[i], reserves[i]) \o AaveLoop(i + 1, reserves)

\* lines 211-281.  w.reserves[i]: how getUserReserveData ends for asset i.
getAavePositions(w) ==
    IF ~w.provider
    THEN [threw |-> FALSE, positions |-> <<>>]
    ELSE [threw |-> FALSE, positions |-> AaveLoop(1, w.reserves)]

\* lines 290-294
compoundTokens ==
    << [address |-> "0x4Ddc2D193948926D02f9B1fE9e1daa0718270ED5", symbol |-> "cETH", underlying |-> "ETH"],
       [address |-> "0x39AA39c021dfbaE8faC545936693aC917d5E7563", symbol |-> "cUSDC", underlying |-> "USDC"],
       [address |-> "0x5d3a536E4D6DbD6114cc1Ead35777bAB948E3643", symbol |-> "cDAI", underlying |-> "DAI"] >>

\* lines 300-323: one iteration; data is how the two queries end, with
\* [balance, exchangeRate], the rate in thousandths (parseEther('1') is 1000)
CompoundRow(cToken, data) ==
    IF ~data.ok THEN <<>>
    ELSE IF ~(data.v.balance > 0) THEN <<>>
    ELSE LET underlyingAmount == (data.v.balance * data.v.exchangeRate) \div 1000
             readableAmount == formatEther(underlyingAmount)
         IN  IF parseFloat(readableAmount) > 1
             THEN << [protocol |-> "Compound", type |-> "Supply",
                      token |-> cToken.underlying,
                      amount |-> <<Part(readableAmount, cToken.underlying)>>,
                      value |-> Times(parseFloat(readableAmount), Usd(3200, 0)),
                      apy |-> 28,
                      yield |-> Times(parseFloat(readableAmount), Usd(71, 68)),
                      contractAddress |-> cToken.address] >>
             ELSE <<>>

RECURSIVE CompoundLoop(_, _)
CompoundLoop(i, ctokens) ==
    IF i > Len(compoundTokens) THEN <<>>
    ELSE CompoundRow(compoundTokens[i], ctokens[i]) \o CompoundLoop(i + 1, ctokens)

\* a reader that returns what its loop found, be it nothing
getCompoundPositionsPlain(w) ==
    IF ~w.provider
    THEN [threw |-> FALSE, positions |-> <<>>]
    ELSE [threw |-> FALSE, positions |-> CompoundLoop(1, w.ctokens)]

\* lines 284-350.  w.ctokens[i]: how the queries of cToken i end.
getCompoundPositions(w) ==
    IF ~w.provider
    THEN [threw |-> FALSE, positions |-> <<>>]
    ELSE LET positions == CompoundLoop(1, w.ctokens)
         IN  IF Len(positions) = 0
             THEN [threw |-> FALSE, positions |-> <<CompoundExample>>]
             ELSE [threw |-> FALSE, positions |-> positions]

(***************************************************************************)
(* One call of a position reader, on every way its chain queries can end   *)
(***************************************************************************)
Indices(n) == 0 .. (Min(n, 10) - 1)

\* the outcomes of the detail queries of n position NFTs: at most
\* MaxDetailFailures iterations fail, at either of their two queries
Details(n) ==
    UNION { { [i \in Indices(n) |->
                 IF i \in T THEN "tokenFails"
                 ELSE IF i \in F THEN "positionsFails" ELSE "ok"] :
              T \in SUBSET F } :
            F \in { X \in SUBSET Indices(n) :
                        Cardinality(X) <= MaxDetailFailures } }

UniswapWorlds ==
    { [provider |-> FALSE, count |-> Fail, detail |-> <<>>],
      [provider |-> TRUE, count |-> Fail, detail |-> <<>>] }
    \cup UNION { { [provider |-> TRUE, count |-> Ok(n), detail |-> d] :
                   d \in Details(n) } : n \in 0..MaxNfts }

ReserveData == { Fail, Ok(0), Ok(1), Ok(5) }

AaveWorlds ==
    { [provider |-> p, reserves |-> r] :
      p \in BOOLEAN, r \in [1..Len(aaveAssets) -> ReserveData] }

CTokenData ==
    { Fail,
      Ok([balance |-> 0, exchangeRate |-> 20]),
      Ok([balance |-> 50, exchangeRate |-> 20]),
      Ok([balance |-> 250, exchangeRate |-> 20]) }

CompoundWorlds ==
    { [provider |-> p, ctokens |-> r] :
      p \in BOOLEAN, r \in [1..Len(compoundTokens) -> CTokenData] }

NoOutput == [threw |-> FALSE, positions |-> <<>>]

ReaderIdle ==
    reader = [name |-> "none", w |-> [provider |-> FALSE], returned |-> FALSE,
              out |-> NoOutput]

InitReader ==
    \/ \E w \in UniswapWorlds :
          reader = [name |-> "uniswap", w |-> w, returned |-> FALSE, out |-> NoOutput]
    \/ \E w \in AaveWorlds :
          reader = [name |-> "aave", w |-> w, returned |-> FALSE, out |-> NoOutput]
    \/ \E w \in CompoundWorlds :
          reader = [name |-> "compound", w |-> w, returned |-> FALSE, out |-> NoOutput]

CallUniswap ==
    /\ reader.name = "uniswap" /\ ~reader.returned
    /\ reader' = [reader EXCEPT !.returned = TRUE,
                                !.out = getUniswapPositions(reader.w)]
    /\ UNCHANGED nonReaderVars

CallAave ==
    /\ reader.name = "aave" /\ ~reader.returned
    /\ reader' = [reader EXCEPT !.returned = TRUE,
                                !.out = getAavePositions(reader.w)]
    /\ UNCHANGED nonReaderVars

CallCompound ==
    /\ reader.name = "compound" /\ ~reader.returned
    /\ reader' = [reader EXCEPT !.returned = TRUE,
                                !.out = getCompoundPositions(reader.w)]
    /\ UNCHANGED nonReaderVars

NextReader == CallUniswap \/ CallAave \/ CallCompound

(***************************************************************************)
(* page.tsx: the aggregator.  fetchRealData is cut at its awaits; what     *)
(* each awaited call resolves with is an input of the step after it.       *)
(***************************************************************************)
\* line 99
tokenIds ==
    << "ethereum", "uniswap", "aave", "compound-governance-token", "dai",
       "tether", "weth" >>

\* lines 104-111
commonTokens ==
    << [address |-> "0x1f9840a85d5aF5bf1D1762F925BDADdC4201F984", symbol |-> "UNI"],
       [address |-> "0x7Fc66500c84A76Ad7e9c93437bFc5Ac33E2DDaE9", symbol |-> "AAVE"],
       [address |-> "0xc00e94Cb662C3520282E6f5717214004A7f26888", symbol |-> "COMP"],
       [address |-> "0x6B175474E89094C44Da98b954EedeAC495271d0F", symbol |-> "DAI"],
       [address |-> "0xdAC17F958D2ee523a2206206994597C13D831ec7", symbol |-> "USDT"],
       [address |-> "0xC02aaA39b223FE8D0A0e5C4F27eAD9083C756Cc2", symbol |-> "WETH"] >>

\* String.prototype.toLowerCase on the symbols of commonTokens and on 'ETH'
toLowerCase ==
    ("UNI" :> "uni") @@ ("AAVE" :> "aave") @@ ("COMP" :> "comp") @@
    ("DAI" :> "dai") @@ ("USDT" :> "usdt") @@ ("WETH" :> "weth") @@
    ("ETH" :> "eth")

\* a lookup that takes a missing price from the fallback table
UsdOrFallback(prices, id, dflt) ==
    IF id \in DOMAIN prices /\ prices[id].usd /= 0 THEN prices[id].usd
    ELSE IF id \in DOMAIN fallbackPrices THEN fallbackPrices[id].usd
    ELSE dflt

\* `prices[id]?.usd || dflt`: a missing row or a zero price gives the default
UsdOr(prices, id, dflt) ==
    IF id \in DOMAIN prices /\ prices[id].usd /= 0 THEN prices[id].usd ELSE dflt

\* lines 102-103, 112-120: the ETH row, pushed when the balance is positive
EthRows(prices, ethBalance) ==
    LET ethPrice == UsdOr(prices, "ethereum", Usd(3200, 0))
        ethValue == Times(parseFloat(ethBalance), ethPrice)
    IN  IF parseFloat(ethBalance) > 0
        THEN << [symbol |-> "ETH", balance |-> ethBalance, price |-> ethPrice,
                 value |-> ethValue] >>
        ELSE <<>>

\* web3.ts lines 103-105: what getTokenBalance gives for no balance
ZeroBalance == [balance |-> Str(0, <<>>), symbol |-> "", decimals |-> 18]

\* an iteration that pushes a row for whatever the lookup resolves with
TokenRowsUnfiltered(prices, token, lookup) ==
    IF ~lookup.ok THEN <<>>
    ELSE LET price == IF toLowerCase[token.symbol] \in DOMAIN prices
                      THEN prices[toLowerCase[token.symbol]].usd ELSE 0
             value == Times(parseFloat(lookup.v.balance), price)
         IN  << [symbol |-> lookup.v.symbol, balance |-> lookup.v.balance,
                 price |-> price, value |-> value] >>

\* lines 122-136: one iteration of the token loop; lookup is how the awaited
\* getTokenBalance ended
TokenRows(prices, token, lookup) ==
    IF ~lookup.ok THEN <<>>
    ELSE IF parseFloat(lookup.v.balance) > 0 /\ lookup.v.symbol /= ""
         THEN LET price == UsdOr(prices, toLowerCase[token.symbol], 0)
                  value == Times(parseFloat(lookup.v.balance), price)
              IN  << [symbol |-> lookup.v.symbol, balance |-> lookup.v.balance,
                      price |-> price, value |-> value] >>
         ELSE <<>>

\* Array.prototype.reduce((sum, x) => sum + f(x), 0) for the three sums
RECURSIVE SumValue(_)
SumValue(rows) ==
    IF rows = <<>> THEN Zero ELSE Plus(SumValue(Tail(rows)), Head(rows).value)

\* a reducer that leaves every yield out
YieldIgnored(pos) == Zero

\* `pos.yield || 0`
YieldOrZero(pos) == IF "yield" \in DOMAIN pos THEN pos.yield ELSE Zero

RECURSIVE SumYield(_)
SumYield(positions) ==
    IF positions = <<>> THEN Zero
    ELSE Plus(SumYield(Tail(positions)), YieldOrZero(Head(positions)))

\* api.ts lines 255-260
RECURSIVE calculatePortfolioValue(_, _)
calculatePortfolioValue(tokens, prices) ==
    IF tokens = <<>> THEN Zero
    ELSE LET token == tokens[Len(tokens)]
             price == UsdOr(prices, toLowerCase[token.symbol], 0)
         IN  Plus(calculatePortfolioValue(SubSeq(tokens, 1, Len(tokens) - 1), prices),
                  Times(parseFloat(token.balance), price))

\* api.ts lines 263-265
calculateTotalYield(positions) == SumYield(positions)

\* a merge step that lists the positions in the reverse reader order
MergeReversed(tokenBalances, uni, aave, comp) ==
    LET allPositions == comp \o aave \o uni
    IN  [totalValue |-> Plus(SumValue(tokenBalances), SumValue(allPositions)),
         tokens |-> tokenBalances,
         defiPositions |-> allPositions,
         totalYield |-> SumYield(allPositions)]

\* a merge step whose total leaves the positions out
MergeTokensOnly(tokenBalances, uni, aave, comp) ==
    LET allPositions == uni \o aave \o comp
    IN  [totalValue |-> SumValue(tokenBalances),
         tokens |-> tokenBalances,
         defiPositions |-> allPositions,
         totalYield |-> SumYield(allPositions)]

\* lines 143-152: the merge step
Merge(tokenBalances, uni, aave, comp) ==
    LET allPositions == uni \o aave \o comp
    IN  [totalValue |-> Plus(SumValue(tokenBalances), SumValue(allPositions)),
         tokens |-> tokenBalances,
         defiPositions |-> allPositions,
         totalYield |-> SumYield(allPositions)]

\* lines 47-52 and 186: the empty snapshot
EmptySnapshot ==
    [totalValue |-> Zero, tokens |-> <<>>, defiPositions |-> <<>>,
     totalYield |-> Zero]

\* lines 56-94
fetchMockData ==
    [totalValue |-> Money(15420, 50),
     tokens |->
       << [symbol |-> "ETH", balance |-> Str(2, <<5>>), price |-> Usd(3200, 0),
           value |-> Money(8000, 0)],
          [symbol |-> "USDC", balance |-> Str(5000, <<>>), price |-> Usd(1, 0),
           value |-> Money(5000, 0)],
          [symbol |-> "UNI", balance |-> Str(100, <<>>), price |-> Usd(24, 20),
           value |-> Money(2420, 0)] >>,
     defiPositions |->
       << [protocol |-> "Uniswap", type |-> "LP Position", token |-> "ETH/USDC",
           amount |-> <<Part(Str(1, <<2>>), "ETH"), Part(Str(3840, <<>>), "USDC")>>,
           value |-> Money(7680, 0), apy |-> 125],
          [protocol |-> "Aave", type |-> "Supply", token |-> "USDC",
           amount |-> <<Part(Str(2000, <<>>), "USDC")>>,
           value |-> Money(2000, 0), apy |-> 32, yield |-> Money(64, 0)],
          [protocol |-> "Compound", type |-> "Supply", token |-> "ETH",
           amount |-> <<Part(Str(0, <<8>>), "ETH")>>,
           value |-> Money(2560, 0), apy |-> 28, yield |-> Money(71, 68)] >>,
     totalYield |-> Money(135, 68)]

(***************************************************************************)
(* One run of fetchRealData, on every way its awaited calls can end        *)
(***************************************************************************)
\* a table from the network with a row for every id of tokenIds, and one
\* with rows for two of them only
NetFull ==
    ("ethereum" :> PriceRow(Usd(3000, 50))) @@ ("uniswap" :> PriceRow(Usd(20, 0))) @@
    ("aave" :> PriceRow(Usd(80, 10))) @@
    ("compound-governance-token" :> PriceRow(Usd(40, 0))) @@
    ("dai" :> PriceRow(Usd(1, 1))) @@ ("tether" :> PriceRow(Usd(0, 99))) @@
    ("weth" :> PriceRow(Usd(3000, 0)))

NetPartial == ("aave" :> PriceRow(Usd(80, 10))) @@ ("dai" :> PriceRow(0))

AggPrices == { fallbackPrices, NetFull, NetPartial }

\* getEthBalance: it rejects (getProvider, called outside its try, throws),
\* gives '0' (no provider, or getBalance failed), or formats the balance
EthBalances == { Fail, Ok(Str(0, <<>>)), Ok(formatEther(0)), Ok(formatEther(1500)) }

\* getTokenBalance for commonTokens[i]: it rejects, finds no balance, or
\* formats the balance, with the symbol the contract reports
TokenLookups(i) ==
    { Fail, Ok(ZeroBalance),
      Ok([balance |-> formatUnits(500), symbol |-> commonTokens[i].symbol,
          decimals |-> 18]),
      Ok([balance |-> formatUnits(500), symbol |-> "", decimals |-> 18]) }

AggUniswapWorlds == { w \in UniswapWorlds : w.count.ok => w.count.v <= MaxAggNfts }

ReaderNames == { "uniswap", "aave", "compound" }

\* a reader rejecting: its getProvider, called outside its try, throws
Rejected == [threw |-> TRUE, positions |-> <<>>]

Reads(name) ==
    { Rejected } \cup
    ( IF name = "uniswap" THEN { getUniswapPositions(w) : w \in AggUniswapWorlds }
      ELSE IF name = "aave" THEN { getAavePositions(w) : w \in AaveWorlds }
      ELSE { getCompoundPositions(w) : w \in CompoundWorlds } )

InitAgg ==
    agg = [pc |-> "prices", prices |-> EmptyMap, ethBalance |-> Str(0, <<>>),
           tokenBalances |-> <<>>, next |-> 1, lookup |-> Ok(ZeroBalance),
           pending |-> {}, got |-> [n \in ReaderNames |-> <<>>],
           caught |-> FALSE, data |-> EmptySnapshot]

\* a catch that keeps the token rows found so far
CaughtPartial(a) ==
    [a EXCEPT !.pc = "returned", !.caught = TRUE,
              !.data = [fetchMockData EXCEPT !.tokens = a.tokenBalances]]

\* lines 155-158: the catch of fetchRealData
Caught(a) == [a EXCEPT !.pc = "returned", !.caught = TRUE, !.data = fetchMockData]

\* line 100
AwaitPrices(p) ==
    /\ agg.pc = "prices"
    /\ agg' = [agg EXCEPT !.pc = "eth", !.prices = p]
    /\ UNCHANGED nonAggVars

\* lines 101-120
AwaitEthBalance(b) ==
    /\ agg.pc = "eth"
    /\ agg' = IF ~b.ok THEN Caught(agg)
              ELSE [agg EXCEPT !.pc = "tokens", !.ethBalance = b.v,
                               !.tokenBalances = EthRows(agg.prices, b.v)]
    /\ UNCHANGED nonAggVars

\* lines 121-142: one iteration of the token loop; after the last one the
\* three readers are called
AwaitTokenBalance ==
    /\ agg.pc = "tokens"
    /\ \E lookup \in TokenLookups(agg.next) :
         agg' = [agg EXCEPT
                   !.tokenBalances =
                       @ \o TokenRows(agg.prices, commonTokens[agg.next], lookup),
                   !.lookup = lookup,
                   !.next = @ + 1,
                   !.pc = IF agg.next = Len(commonTokens) THEN "readers" ELSE @,
                   !.pending = IF agg.next = Len(commonTokens) THEN ReaderNames ELSE @]
    /\ UNCHANGED nonAggVars

\* line 138: one of the three promises settles
ReaderSettles(name, out) ==
    /\ agg.pc = "readers" /\ name \in agg.pending
    /\ agg' = IF out.threw THEN Caught(agg)
              ELSE [agg EXCEPT !.pending = @ \ {name},
                               !.got[name] = out.positions]
    /\ UNCHANGED nonAggVars

\* lines 143-154: Promise.all has resolved
MergeAndReturn ==
    /\ agg.pc = "readers" /\ agg.pending = {}
    /\ agg' = [agg EXCEPT
                 !.pc = "returned",
                 !.data = Merge(agg.tokenBalances, agg.got["uniswap"],
                                agg.got["aave"], agg.got["compound"])]
    /\ UNCHANGED nonAggVars

NextAgg ==
    \/ \E p \in AggPrices : AwaitPrices(p)
    \/ \E b \in EthBalances : AwaitEthBalance(b)
    \/ AwaitTokenBalance
    \/ \E name \in ReaderNames : \E out \in Reads(name) : ReaderSettles(name, out)
    \/ MergeAndReturn

\* every call awaited at once
RequestsOverlapping(a) ==
    IF a.pc = "returned" THEN {} ELSE { "prices", "eth" } \cup ReaderNames

\* lines 100, 101, 123, 138: the calls fetchRealData has made and is awaiting
Requests(a) ==
    IF a.pc = "prices" THEN { "prices" }
    ELSE IF a.pc = "eth" THEN { "eth" }
    ELSE IF a.pc = "tokens" THEN { commonTokens[a.next].symbol }
    ELSE IF a.pc = "readers" THEN a.pending
    ELSE {}

AggIdle == InitAgg

(***************************************************************************)
(* page.tsx: fetchRealData as a function of how its awaited calls end,     *)
(* and the component's state and handlers.  A handler reads the state of   *)
(* the render it was created in; an invocation of fetchPortfolioData       *)
(* keeps the dataSource and the address it started with.                   *)
(***************************************************************************)
\* a token loop that a rejecting lookup ends
RECURSIVE TokenLoopAborting(_, _, _)
TokenLoopAborting(i, prices, lookups) ==
    IF i > Len(commonTokens) \/ ~lookups[i].ok THEN <<>>
    ELSE TokenRows(prices, commonTokens[i], lookups[i])
         \o TokenLoopAborting(i + 1, prices, lookups)

\* lines 121-137: the token loop from entry i on
RECURSIVE TokenLoop(_, _, _)
TokenLoop(i, prices, lookups) ==
    IF i > Len(commonTokens) THEN <<>>
    ELSE TokenRows(prices, commonTokens[i], lookups[i])
         \o TokenLoop(i + 1, prices, lookups)

\* lines 96-159
fetchRealData(w) ==
    IF ~w.eth.ok \/ w.uniswap.threw \/ w.aave.threw \/ w.compound.threw
    THEN fetchMockData
    ELSE Merge(EthRows(w.prices, w.eth.v) \o TokenLoop(1, w.prices, w.lookups),
               w.uniswap.positions, w.aave.positions, w.compound.positions)

\* three environments of a run: no provider; a wallet with ETH, one token
\* and positions; getEthBalance rejecting
NoProviderWorld ==
    [prices |-> fallbackPrices, eth |-> Ok(Str(0, <<>>)),
     lookups |-> [i \in 1..Len(commonTokens) |-> Ok(ZeroBalance)],
     uniswap |-> getUniswapPositions([provider |-> FALSE, count |-> Fail, detail |-> <<>>]),
     aave |-> getAavePositions([provider |-> FALSE,
                                reserves |-> [i \in 1..Len(aaveAssets) |-> Fail]]),
     compound |-> getCompoundPositions([provider |-> FALSE,
                                        ctokens |-> [i \in 1..Len(compoundTokens) |-> Fail]])]

FundedWorld ==
    [prices |-> NetFull, eth |-> Ok(formatEther(1500)),
     lookups |-> [i \in 1..Len(commonTokens) |->
                    IF i = 2 THEN Ok([balance |-> formatUnits(500),
                                      symbol |-> "AAVE", decimals |-> 18])
                    ELSE Ok(ZeroBalance)],
     uniswap |-> getUniswapPositions([provider |-> TRUE, count |-> Ok(1),
                                      detail |-> [i \in {0} |-> "ok"]]),
     aave |-> getAavePositions([provider |-> TRUE,
                                reserves |-> [i \in 1..Len(aaveAssets) |->
                                                IF i = 1 THEN Ok(5) ELSE Ok(0)]]),
     compound |-> getCompoundPositions([provider |-> TRUE,
                                        ctokens |-> [i \in 1..Len(compoundTokens) |-> Fail]])]

RejectingWorld == [FundedWorld EXCEPT !.eth = Fail]

UiWorlds == { NoProviderWorld, FundedWorld, RejectingWorld }

Addresses == { "0xA1", "0xB2" }

RunIds == 1..MaxRuns

IdleRun == [active |-> FALSE, source |-> "real", address |-> ""]

InitUi ==
    /\ isConnected = FALSE
    /\ walletAddress = ""
    /\ portfolioData = EmptySnapshot
    /\ isLoading = FALSE
    /\ dataSource = "real"
    /\ connecting = "none"
    /\ runs = [r \in RunIds |-> IdleRun]

\* lines 161-164: an invocation of fetchPortfolioData begins; setIsLoading(true)
Begin(source, address) ==
    /\ \E r \in RunIds :
          /\ ~runs[r].active
          /\ \A q \in RunIds : q < r => runs[q].active
          /\ runs' = [runs EXCEPT ![r] = [active |-> TRUE, source |-> source,
                                          address |-> address]]
    /\ isLoading' = TRUE

\* an invocation that ends without setIsLoading(false)
FetchPortfolioDataSettlesLoading(r, w) ==
    /\ runs[r].active
    /\ portfolioData' = IF runs[r].source = "real" THEN fetchRealData(w)
                        ELSE fetchMockData
    /\ runs' = [runs EXCEPT ![r] = IdleRun]
    /\ UNCHANGED <<isLoading, isConnected, walletAddress, dataSource, connecting>>
    /\ UNCHANGED nonUiVars

\* lines 164-171: the invocation has its data; setPortfolioData, setIsLoading(false)
FetchPortfolioDataSettles(r, w) ==
    /\ runs[r].active
    /\ portfolioData' = IF runs[r].source = "real" THEN fetchRealData(w)
                        ELSE fetchMockData
    /\ isLoading' = FALSE
    /\ runs' = [runs EXCEPT ![r] = IdleRun]
    /\ UNCHANGED <<isConnected, walletAddress, dataSource, connecting>>
    /\ UNCHANGED nonUiVars

\* lines 196-206: the click on Connect, up to the await of eth_requestAccounts
connectWallet ==
    /\ ~isConnected /\ ~isLoading /\ connecting = "none"
    /\ isLoading' = TRUE
    /\ connecting' = dataSource
    /\ UNCHANGED <<isConnected, walletAddress, portfolioData, dataSource, runs>>
    /\ UNCHANGED nonUiVars

\* lines 207-211: the wallet answers with an account
ConnectApproved(address) ==
    /\ connecting /= "none"
    /\ walletAddress' = address
    /\ isConnected' = TRUE
    /\ Begin(connecting, address)
    /\ connecting' = "none"
    /\ UNCHANGED <<portfolioData, dataSource>>
    /\ UNCHANGED nonUiVars

\* lines 212-223: the request is rejected, or answers with no account
ConnectRejected ==
    /\ connecting /= "none"
    /\ isLoading' = FALSE
    /\ connecting' = "none"
    /\ UNCHANGED <<isConnected, walletAddress, portfolioData, dataSource, runs>>
    /\ UNCHANGED nonUiVars

\* lines 178-188
handleAccountsChanged(accounts) ==
    /\ IF Len(accounts) > 0
       THEN /\ walletAddress' = accounts[1]
            /\ isConnected' = TRUE
            /\ Begin(dataSource, accounts[1])
            /\ UNCHANGED portfolioData
       ELSE /\ isConnected' = FALSE
            /\ walletAddress' = ""
            /\ portfolioData' = EmptySnapshot
            /\ UNCHANGED <<isLoading, runs>>
    /\ UNCHANGED <<dataSource, connecting>>
    /\ UNCHANGED nonUiVars

\* lines 336-340: the Disconnect button
Disconnect ==
    /\ isConnected
    /\ isConnected' = FALSE
    /\ walletAddress' = ""
    /\ portfolioData' = EmptySnapshot
    /\ UNCHANGED <<isLoading, dataSource, connecting, runs>>
    /\ UNCHANGED nonUiVars

\* lines 226-232
toggleDataSource ==
    /\ dataSource' = IF dataSource = "mock" THEN "real" ELSE "mock"
    /\ IF isConnected /\ walletAddress /= ""
       THEN Begin(dataSource, walletAddress)
       ELSE UNCHANGED <<isLoading, runs>>
    /\ UNCHANGED <<isConnected, walletAddress, portfolioData, connecting>>
    /\ UNCHANGED nonUiVars

\* lines 234-238, 282-285
refreshData ==
    /\ isConnected /\ ~isLoading
    /\ walletAddress /= ""
    /\ Begin(dataSource, walletAddress)
    /\ UNCHANGED <<isConnected, walletAddress, portfolioData, dataSource, connecting>>
    /\ UNCHANGED nonUiVars

NextUi ==
    \/ connectWallet
    \/ \E a \in Addresses : ConnectApproved(a)
    \/ ConnectRejected
    \/ \E accounts \in { <<>> } \cup { <<a>> : a \in Addresses } :
          handleAccountsChanged(accounts)
    \/ Disconnect
    \/ toggleDataSource
    \/ refreshData
    \/ \E r \in RunIds : \E w \in UiWorlds : FetchPortfolioDataSettles(r, w)

UiIdle == InitUi

(***************************************************************************)
(* web3.ts: the balance readers, each a function of whether a provider     *)
(* exists, of what the address checks say and of how its chain queries end *)
(***************************************************************************)
\* formatUnits(x, decimals) for a token of 18 decimals and for one of 15,
\* whose thousand base units are a thousand whole tokens
formatUnitsOf(x, decimals) ==
    IF decimals = 18 THEN formatUnits(x) ELSE Str(x, <<0>>)

\* getEthBalance with no provider check
getEthBalanceUnguarded(w) ==
    IF ~w.balance.ok
    THEN [threw |-> FALSE, result |-> Str(0, <<>>), queries |-> <<"getBalance">>]
    ELSE [threw |-> FALSE, result |-> formatEther(w.balance.v),
          queries |-> <<"getBalance">>]

\* lines 84-95
getEthBalance(w) ==
    IF ~w.provider
    THEN [threw |-> FALSE, result |-> Str(0, <<>>), queries |-> <<>>]
    ELSE IF ~w.balance.ok
    THEN [threw |-> FALSE, result |-> Str(0, <<>>), queries |-> <<"getBalance">>]
    ELSE [threw |-> FALSE, result |-> formatEther(w.balance.v),
          queries |-> <<"getBalance">>]

\* JavaScript's null
Null == "null"

\* lines 70-81.  w.accounts: how provider.listAccounts ends
getWalletAddress(w) ==
    IF ~w.provider THEN [threw |-> FALSE, result |-> Null]
    ELSE IF ~w.accounts.ok THEN [threw |-> FALSE, result |-> Null]
    ELSE IF Len(w.accounts.v) = 0 THEN [threw |-> FALSE, result |-> Null]
    ELSE [threw |-> FALSE, result |-> w.accounts.v[1]]

\* lines 123-140: the part of getTokenBalance after the address checks
TokenQueries(w) ==
    IF ~w.balance.ok \/ w.balance.v = 0
    THEN [threw |-> FALSE, result |-> ZeroBalance, queries |-> <<"balanceOf">>]
    ELSE LET decimals == IF w.decimals.ok THEN w.decimals.v ELSE 18
             symbol == IF w.symbol.ok THEN w.symbol.v ELSE "UNKNOWN"
         IN  [threw |-> FALSE,
              result |-> [balance |-> formatUnitsOf(w.balance.v, decimals),
                          symbol |-> symbol, decimals |-> decimals],
              queries |-> <<"balanceOf", "decimals", "symbol">>]

\* getTokenBalance without the address checks
getTokenBalanceUnchecked(w) ==
    IF ~w.provider
    THEN [threw |-> FALSE, result |-> ZeroBalance, queries |-> <<>>]
    ELSE TokenQueries(w)

\* getTokenBalance giving up when a sub-query fails
getTokenBalanceStrict(w) ==
    IF ~w.provider \/ ~w.tokenOk \/ ~w.walletOk \/ ~w.decimals.ok \/ ~w.symbol.ok
    THEN [threw |-> FALSE, result |-> ZeroBalance, queries |-> <<>>]
    ELSE TokenQueries(w)

\* lines 98-145.  w.tokenOk, w.walletOk: what ethers.utils.isAddress says of
\* the two addresses; w.balance, w.decimals, w.symbol: how the queries end
getTokenBalance(w) ==
    IF ~w.provider
    THEN [threw |-> FALSE, result |-> ZeroBalance, queries |-> <<>>]
    ELSE IF ~w.tokenOk
    THEN [threw |-> FALSE, result |-> ZeroBalance, queries |-> <<>>]
    ELSE IF ~w.walletOk
    THEN [threw |-> FALSE, result |-> ZeroBalance, queries |-> <<>>]
    ELSE TokenQueries(w)

(***************************************************************************)
(* api.ts: fetchTokenData, a function of how its request ends              *)
(***************************************************************************)
\* fetchTokenData with a catch that returns the empty list
fetchTokenDataSwallowing(w) ==
    IF w.response.ok THEN [threw |-> FALSE, result |-> w.response.v]
    ELSE [threw |-> FALSE, result |-> <<>>]

\* lines 118-144: the catch logs the error and throws it again
fetchTokenData(w) ==
    IF w.response.ok THEN [threw |-> FALSE, result |-> w.response.v]
    ELSE [threw |-> TRUE, result |-> <<>>]

(***************************************************************************)
(* One call of an exported operation, on every way its queries can end     *)
(***************************************************************************)
BalanceData == { Fail, Ok(0), Ok(500), Ok(1500) }

EthWorlds == { [provider |-> p, balance |-> b] : p \in BOOLEAN, b \in BalanceData }

TokenWorlds ==
    { [provider |-> p, tokenOk |-> t, walletOk |-> a, balance |-> b,
       decimals |-> d, symbol |-> y] :
      p \in BOOLEAN, t \in BOOLEAN, a \in BOOLEAN, b \in BalanceData,
      d \in { Fail, Ok(18), Ok(15) }, y \in { Fail, Ok("DAI"), Ok("") } }

\* fetchRealData with a priced table and positions, on every way the six
\* token lookups can end
RealWorlds ==
    { [FundedWorld EXCEPT !.eth = e, !.lookups = l] :
      e \in { Ok(Str(0, <<>>)), Ok(formatEther(1500)) },
      l \in TokenLookups(1) \X TokenLookups(2) \X TokenLookups(3)
             \X TokenLookups(4) \X TokenLookups(5) \X TokenLookups(6) }

\* fetchRealData for a wallet with ETH and none of the listed tokens, when
\* every chain query of the three position readers fails
MixedWorlds ==
    { [prices |-> p, eth |-> Ok(formatEther(1500)),
       lookups |-> [i \in 1..Len(commonTokens) |-> Ok(ZeroBalance)],
       uniswap |-> getUniswapPositions([provider |-> TRUE, count |-> Fail,
                                        detail |-> <<>>]),
       aave |-> getAavePositions([provider |-> TRUE,
                                  reserves |-> [i \in 1..Len(aaveAssets) |-> Fail]]),
       compound |-> getCompoundPositions([provider |-> TRUE,
                                          ctokens |-> [i \in 1..Len(compoundTokens) |-> Fail]])] :
      p \in AggPrices }

WalletWorlds ==
    { [provider |-> p, accounts |-> a] :
      p \in BOOLEAN, a \in { Fail, Ok(<<>>), Ok(<<"0xA1">>), Ok(<<"0xB2", "0xA1">>) } }

\* the rows of /coins/markets, by their ids
TokenDataWorlds ==
    { [ids |-> ids, response |-> r] :
      ids \in IdSeqs, r \in { Fail, Ok(<<>>), Ok(<<"ethereum", "uniswap">>) } }

OpIdle == op = [name |-> "none", w |-> [provider |-> FALSE], returned |-> FALSE]

InitOp ==
    \/ \E w \in EthWorlds : op = [name |-> "getEthBalance", w |-> w, returned |-> FALSE]
    \/ \E w \in TokenWorlds : op = [name |-> "getTokenBalance", w |-> w, returned |-> FALSE]
    \/ \E w \in RealWorlds \cup MixedWorlds :
          op = [name |-> "fetchRealData", w |-> w, returned |-> FALSE]
    \/ \E w \in WalletWorlds : op = [name |-> "getWalletAddress", w |-> w, returned |-> FALSE]
    \/ \E w \in TokenDataWorlds : op = [name |-> "fetchTokenData", w |-> w, returned |-> FALSE]
    \/ op = [name |-> "fetchTokenPrices", w |-> [provider |-> FALSE], returned |-> FALSE]

CallGetEthBalance ==
    /\ op.name = "getEthBalance" /\ ~op.returned
    /\ op' = [name |-> op.name, w |-> op.w, returned |-> TRUE,
              out |-> getEthBalance(op.w)]
    /\ UNCHANGED nonOpVars

CallGetTokenBalance ==
    /\ op.name = "getTokenBalance" /\ ~op.returned
    /\ op' = [name |-> op.name, w |-> op.w, returned |-> TRUE,
              out |-> getTokenBalance(op.w)]
    /\ UNCHANGED nonOpVars

CallFetchRealData ==
    /\ op.name = "fetchRealData" /\ ~op.returned
    /\ op' = [name |-> op.name, w |-> op.w, returned |-> TRUE,
              out |-> [threw |-> FALSE, result |-> fetchRealData(op.w)]]
    /\ UNCHANGED nonOpVars

CallGetWalletAddress ==
    /\ op.name = "getWalletAddress" /\ ~op.returned
    /\ op' = [name |-> op.name, w |-> op.w, returned |-> TRUE,
              out |-> getWalletAddress(op.w)]
    /\ UNCHANGED nonOpVars

\* api.ts lines 118-144, with the rate limiting of lines 120-124
CallFetchTokenData ==
    /\ op.name = "fetchTokenData" /\ ~op.returned
    /\ op' = [name |-> op.name, w |-> op.w, returned |-> TRUE,
              out |-> fetchTokenData(op.w)]
    /\ now' = now + RateLimitDelay(now, lastRequestTime)
    /\ lastRequestTime' = now'
    /\ UNCHANGED <<cache, calls>>
    /\ UNCHANGED <<readerVars, aggVars, uiVars>>

\* one call of fetchTokenPrices, by the first caller
CallFetchTokenPrices ==
    /\ op.name = "fetchTokenPrices"
    /\ \/ \E ids \in IdSeqs : FetchTokenPricesStart(1, ids)
       \/ \E data \in NetTables(calls[1].ids) : FetchTokenPricesResponse(1, data)
       \/ FetchTokenPricesError(1)

NextOp ==
    \/ CallGetEthBalance
    \/ CallGetTokenBalance
    \/ CallFetchRealData
    \/ CallGetWalletAddress
    \/ CallFetchTokenData
    \/ CallFetchTokenPrices
    \/ CallUniswap
    \/ CallAave
    \/ CallCompound

PriceIdle == InitPrice

\* each component on its own, the others at rest
ReaderStart == InitReader /\ PriceIdle /\ AggIdle /\ UiIdle /\ OpIdle

ReaderSpec == ReaderStart /\ [][NextReader]_vars

PriceStart == InitPrice /\ ReaderIdle /\ AggIdle /\ UiIdle /\ OpIdle

PriceSpec == PriceStart /\ [][NextPrice]_vars

AggStart == InitAgg /\ PriceIdle /\ ReaderIdle /\ UiIdle /\ OpIdle

AggSpec == AggStart /\ [][NextAgg]_vars

UiStart == InitUi /\ PriceIdle /\ ReaderIdle /\ AggIdle /\ OpIdle

UiSpec == UiStart /\ [][NextUi]_vars

\* every call awaited by an invocation of fetchPortfolioData resolves or
\* rejects in the end, so the invocation gets to the statements behind its await
UiLiveSpec ==
    /\ UiStart /\ [][NextUi]_vars
    /\ \A r \in RunIds :
          WF_vars(\E w \in UiWorlds : FetchPortfolioDataSettles(r, w))

\* one call of an operation of api.ts or web3.ts, the position readers included
OpStart ==
    /\ (InitOp /\ ReaderIdle) \/ (OpIdle /\ InitReader)
    /\ PriceIdle /\ AggIdle /\ UiIdle

OpSpec == OpStart /\ [][NextOp]_vars

(***************************************************************************)
(* Aggregations of one address run one after another: each is a call of    *)
(* fetchTokenPrices(tokenIds) through the shared cache followed by the     *)
(* rest of fetchRealData, on chain responses that do not change.           *)
(***************************************************************************)
\* what the price endpoint answers for tokenIds
RepeatTables == { NetFull, NetPartial }

InitRepeat ==
    \E w \in UiWorlds :
        op = [name |-> "aggregate", w |-> w, returned |-> FALSE, snaps |-> <<>>]

\* page.tsx line 100 of aggregation c, begun once aggregation c - 1 has returned
RepeatPrices ==
    /\ op.name = "aggregate"
    /\ \E c \in Callers :
          /\ Len(op.snaps) = c - 1
          /\ \/ FetchTokenPricesStart(c, tokenIds)
             \/ FetchTokenPricesWake(c)
             \/ \E data \in RepeatTables : FetchTokenPricesResponse(c, data)
             \/ FetchTokenPricesError(c)

\* page.tsx lines 101-158 of aggregation c, with the prices its call gave
RepeatSettles ==
    /\ op.name = "aggregate"
    /\ \E c \in Callers :
          /\ Len(op.snaps) = c - 1
          /\ calls[c].pc = "done"
          /\ op' = [op EXCEPT
                      !.snaps = Append(@, fetchRealData(
                                    [op.w EXCEPT !.prices = calls[c].result])),
                      !.returned = (c = NumCallers)]
    /\ UNCHANGED nonOpVars

RepeatTime ==
    /\ op.name = "aggregate"
    /\ \E t \in Instants : AdvanceTime(t)

NextRepeat ==
    \/ RepeatPrices
    \/ RepeatSettles
    \/ RepeatTime

RepeatStart == InitRepeat /\ InitPrice /\ ReaderIdle /\ AggIdle /\ UiIdle

RepeatSpec == RepeatStart /\ [][NextRepeat]_vars

(***************************************************************************)
(* api.ts as a library: calls of fetchTokenPrices and of fetchTokenData    *)
(* that do not overlap in time, with clearCache between and during them.   *)
(* The first call record is the call of fetchTokenPrices, the last one the *)
(* call of fetchTokenData.                                                 *)
(***************************************************************************)
\* no call is between its entry and its return
Quiet == \A c \in Callers : calls[c].pc \in { "idle", "done" }

\* lines 118-125 up to the first await
FetchTokenDataStart(ids) ==
    /\ calls[NumCallers].pc = "idle"
    /\ LET call == [IdleCall EXCEPT !.ids = ids, !.startedAt = now]
           wait == RateLimitDelay(now, lastRequestTime)
       IN  IF wait > 0
           THEN /\ calls' = [calls EXCEPT ![NumCallers] =
                               [call EXCEPT !.pc = "waiting",
                                            !.wakeAt = now + wait]]
                /\ UNCHANGED lastRequestTime
           ELSE IssueRequest(NumCallers, call)
    /\ UNCHANGED <<now, cache>>
    /\ UNCHANGED nonPriceVars

\* lines 123-137: the delay timer has fired
FetchTokenDataWake ==
    /\ calls[NumCallers].pc = "waiting"
    /\ now >= calls[NumCallers].wakeAt
    /\ IssueRequest(NumCallers, calls[NumCallers])
    /\ UNCHANGED <<now, cache>>
    /\ UNCHANGED nonPriceVars

\* lines 127-143: the request has ended with `response`
FetchTokenDataSettles(response) ==
    /\ calls[NumCallers].pc = "inflight"
    /\ LET out == fetchTokenData([ids |-> calls[NumCallers].ids,
                                  response |-> response])
       IN  calls' = [calls EXCEPT ![NumCallers] =
                        Ended(@, IF out.threw THEN <<"rejected", "failed">>
                                 ELSE <<"resolved", "network">>, out.result)]
    /\ UNCHANGED <<now, cache, lastRequestTime>>
    /\ UNCHANGED nonPriceVars

LibraryPrices ==
    \/ \E ids \in IdSeqs : Quiet /\ FetchTokenPricesStart(1, ids)
    \/ FetchTokenPricesWake(1)
    \/ \E data \in NetTables(calls[1].ids) : FetchTokenPricesResponse(1, data)
    \/ FetchTokenPricesError(1)

LibraryData ==
    \/ \E ids \in IdSeqs : Quiet /\ FetchTokenDataStart(ids)
    \/ FetchTokenDataWake
    \/ \E w \in TokenDataWorlds : FetchTokenDataSettles(w.response)

\* the caller has the result of a call that ended
LibraryReturn ==
    /\ \E c \in Callers :
          /\ calls[c].pc = "done"
          /\ calls' = [calls EXCEPT ![c] = IdleCall]
    /\ UNCHANGED <<now, cache, lastRequestTime>>
    /\ UNCHANGED nonPriceVars

LibraryClear == clearCache

LibraryTime == \E t \in Instants : AdvanceTime(t)

NextLibrary ==
    \/ LibraryPrices
    \/ LibraryData
    \/ LibraryReturn
    \/ LibraryClear
    \/ LibraryTime

LibraryStart == InitPrice /\ ReaderIdle /\ AggIdle /\ UiIdle /\ OpIdle

LibrarySpec == LibraryStart /\ [][NextLibrary]_vars

(***************************************************************************)
(* Claims about the aggregator                                             *)
(***************************************************************************)
\* the sum of the value fields of a list, and of its yield fields where a
\* row without the field counts for nothing
RECURSIVE TotalOfValues(_)
TotalOfValues(rows) ==
    IF Len(rows) = 0 THEN Zero
    ELSE Plus(TotalOfValues(SubSeq(rows, 1, Len(rows) - 1)), rows[Len(rows)].value)

RECURSIVE TotalOfYields(_)
TotalOfYields(rows) ==
    IF Len(rows) = 0 THEN Zero
    ELSE Plus(TotalOfYields(SubSeq(rows, 1, Len(rows) - 1)),
              IF "yield" \in DOMAIN rows[Len(rows)] THEN rows[Len(rows)].yield
              ELSE Zero)

Merged == agg.pc = "returned" /\ ~agg.caught

\* C1: the snapshot a run of fetchRealData returns from its merge step has
\* a totalValue equal to the sum of the values of its own token rows plus
\* the sum of the values of its own positions.
C1_TotalValueIsSum ==
    Merged =>
        agg.data.totalValue = Plus(TotalOfValues(agg.data.tokens),
                                   TotalOfValues(agg.data.defiPositions))

\* a merged snapshot with several token rows and several positions, whose
\* positions carry value
C1_Witness ==
    /\ Merged
    /\ Len(agg.data.tokens) >= 2
    /\ Len(agg.data.defiPositions) >= 2
    /\ agg.data.totalValue /= TotalOfValues(agg.data.tokens)

\* C2: the totalYield of a merged snapshot is the sum of the yield fields of
\* its positions, a position without the field counting for 0; and
\* calculateTotalYield gives that same sum for the position lists the
\* readers return and for the list of the demonstration snapshot.
C2_TotalYieldIsSum ==
    /\ Merged => agg.data.totalYield = TotalOfYields(agg.data.defiPositions)
    /\ LET positions == agg.got["uniswap"] \o agg.got["aave"] \o agg.got["compound"]
       IN  calculateTotalYield(positions) = TotalOfYields(positions)
    /\ calculateTotalYield(agg.data.defiPositions)
           = TotalOfYields(agg.data.defiPositions)

\* a merged snapshot with a position that has no yield field next to
\* positions that have one
C2_Witness ==
    /\ Merged
    /\ \E i \in DOMAIN agg.data.defiPositions :
          "yield" \notin DOMAIN agg.data.defiPositions[i]
    /\ \E i, j \in DOMAIN agg.data.defiPositions :
          /\ i /= j
          /\ "yield" \in DOMAIN agg.data.defiPositions[i]
          /\ "yield" \in DOMAIN agg.data.defiPositions[j]
    /\ agg.data.totalYield /= Zero

NonNegative(m) == m.d >= 0 /\ m.f >= 0

\* C3: every snapshot held in portfolioData has a non-negative totalValue
\* and totalYield, a totalValue equal to the sum of the values of its token
\* rows and of its positions, and a totalYield equal to the sum of the
\* yields of its positions.
C3_SnapshotsConsistent ==
    /\ NonNegative(portfolioData.totalValue)
    /\ NonNegative(portfolioData.totalYield)
    /\ portfolioData.totalValue = Plus(TotalOfValues(portfolioData.tokens),
                                       TotalOfValues(portfolioData.defiPositions))
    /\ portfolioData.totalYield = TotalOfYields(portfolioData.defiPositions)

C11_Alone ==
    LET R == Requests(agg)
    IN  \/ R \subseteq ReaderNames
        \/ Cardinality(R) = 1

C11_Step ==
    LET R == Requests(agg)
        S == Requests(agg')
    IN  /\ (S \ R) /= {} /\ R /= {} => (R \ S) /= {} \/ R \subseteq ReaderNames
        /\ (S \cap ReaderNames) /= {} /\ (R \cap ReaderNames) = {} =>
               /\ S = ReaderNames
               /\ R = { commonTokens[Len(commonTokens)].symbol }

C12_Listed ==
    Merged => agg.data.defiPositions
                  = agg.got["uniswap"] \o agg.got["aave"] \o agg.got["compound"]

C12_Step ==
    \A name \in ReaderNames :
        agg.pc = "readers" /\ name \notin agg.pending =>
            agg'.got[name] = agg.got[name]

\* C12: the positions of a merged snapshot are the list the Uniswap reader
\* returned, then the list the Aave reader returned, then the list the
\* Compound reader returned, each as returned; a list that has arrived is
\* not touched by the readers that settle after it, whichever settles first.
C12_ReaderOrderFixed == [](C12_Listed) /\ [][C12_Step]_vars

\* Aave and Compound have settled, each with rows, before Uniswap has
C12_Witness ==
    /\ agg.pc = "readers"
    /\ agg.pending = { "uniswap" }
    /\ agg.got["aave"] /= <<>>
    /\ agg.got["compound"] /= <<>>

\* C13: a run of fetchRealData ends by returning, never by rejecting; what
\* it returns is the snapshot merged from all its sources (every token
\* looked up, every reader settled), or, when a step threw, the
\* demonstration snapshot of fetchMockData in every field.
C13_WholeOrDemonstration ==
    /\ agg.pc \in { "prices", "eth", "tokens", "readers", "returned" }
    /\ agg.pc = "returned" =>
          IF agg.caught THEN agg.data = fetchMockData
          ELSE /\ agg.next = Len(commonTokens) + 1
               /\ agg.pending = {}
               /\ agg.data.tokens = agg.tokenBalances
               /\ agg.data.defiPositions
                      = agg.got["uniswap"] \o agg.got["aave"] \o agg.got["compound"]
               /\ agg.data.totalValue
                      = Plus(TotalOfValues(agg.tokenBalances),
                             TotalOfValues(agg.data.defiPositions))
               /\ agg.data.totalYield = TotalOfYields(agg.data.defiPositions)

\* a reader rejects when the run already holds token rows and the positions
\* of another reader
C13_Witness ==
    /\ agg.pc = "returned" /\ agg.caught
    /\ Len(agg.tokenBalances) >= 2
    /\ \E name \in ReaderNames : agg.got[name] /= <<>>

\* the key under which the price of a row is looked up, and whether the
\* price result has no price under it
C14_Key(row) == IF row.symbol = "ETH" THEN "ethereum" ELSE toLowerCase[row.symbol]

C14_Missing(row) ==
    \/ C14_Key(row) \notin DOMAIN agg.prices
    \/ agg.prices[C14_Key(row)].usd = 0

\* C14 as stated: every row of a merged snapshot whose price is missing
\* from the price result, the ETH row included, has price 0 and value 0.
C14_MissingPriceIsZero ==
    Merged =>
        \A i \in DOMAIN agg.data.tokens :
            C14_Missing(agg.data.tokens[i]) =>
                /\ agg.data.tokens[i].price = 0
                /\ agg.data.tokens[i].value = Zero

C14_Unpriced(rows) ==
    SelectSeq(rows, LAMBDA row : toLowerCase[row.symbol] \notin DOMAIN agg.prices)

\* C14, amended: in a merged snapshot a fixed-list token whose price is
\* missing has price 0 and value 0, while the ETH row, when the price of
\* ethereum is missing, has price 3200 and value balance * 3200; and
\* calculatePortfolioValue counts 0 for every row whose lower-cased symbol
\* has no price.
C14_MissingPriceDefaults ==
    Merged =>
        /\ \A i \in DOMAIN agg.data.tokens :
             LET row == agg.data.tokens[i]
             IN  C14_Missing(row) =>
                    IF row.symbol = "ETH"
                    THEN /\ row.price = Usd(3200, 0)
                         /\ row.value = Times(parseFloat(row.balance), Usd(3200, 0))
                         /\ row.value /= Zero
                    ELSE row.price = 0 /\ row.value = Zero
        /\ calculatePortfolioValue(C14_Unpriced(agg.data.tokens), agg.prices) = Zero
        /\ calculatePortfolioValue(agg.data.tokens, agg.prices)
             = TotalOfValues(SelectSeq(agg.data.tokens, LAMBDA row : row.symbol /= "ETH"))

\* a merged snapshot from a price result without ethereum and weth, with an
\* ETH row, an unpriced WETH row and a priced AAVE row
C14_Witness ==
    /\ Merged
    /\ "ethereum" \notin DOMAIN agg.prices
    /\ \E i, j, k \in DOMAIN agg.data.tokens :
          /\ agg.data.tokens[i].symbol = "ETH"
          /\ agg.data.tokens[j].symbol = "WETH" /\ agg.data.tokens[j].price = 0
          /\ agg.data.tokens[k].symbol = "AAVE" /\ agg.data.tokens[k].price /= 0

(***************************************************************************)
(* Claims about the balance readers, checked under OpSpec                  *)
(***************************************************************************)
Returned(name) == op.name = name /\ op.returned

NoBalance == [balance |-> [whole |-> 0, frac |-> <<>>], symbol |-> "", decimals |-> 18]

\* C15: getTokenBalance, given a token address or a wallet address that is
\* not well-formed, returns {balance: '0', symbol: '', decimals: 18}, makes
\* no contract call and does not throw.
C15_MalformedAddress ==
    Returned("getTokenBalance") /\ (~op.w.tokenOk \/ ~op.w.walletOk) =>
        /\ ~op.out.threw
        /\ op.out.result = NoBalance
        /\ op.out.queries = <<>>

\* a provider exists, one address is malformed and every query would have
\* succeeded with a balance
C15_Witness ==
    /\ Returned("getTokenBalance")
    /\ op.w.provider /\ op.w.tokenOk /\ ~op.w.walletOk
    /\ op.w.balance = Ok(500) /\ op.w.decimals.ok /\ op.w.symbol.ok
    /\ op.out.result = NoBalance

\* C16: with no provider, getEthBalance returns '0' and getTokenBalance
\* returns {balance: '0', symbol: '', decimals: 18}; neither throws and
\* neither makes a chain query.
C16_NoProvider ==
    /\ Returned("getEthBalance") /\ ~op.w.provider =>
          /\ ~op.out.threw
          /\ op.out.result = [whole |-> 0, frac |-> <<>>]
          /\ op.out.queries = <<>>
    /\ Returned("getTokenBalance") /\ ~op.w.provider =>
          /\ ~op.out.threw
          /\ op.out.result = NoBalance
          /\ op.out.queries = <<>>

\* no provider, while the chain would have answered with a balance
C16_Witness ==
    /\ Returned("getEthBalance")
    /\ ~op.w.provider
    /\ op.w.balance = Ok(1500)
    /\ op.out.result = [whole |-> 0, frac |-> <<>>]

\* C17: when balanceOf succeeds with a nonzero balance, getTokenBalance
\* returns a row with a nonzero balance whichever of the decimals and
\* symbol queries fail: decimals is 18 exactly when its query fails, symbol
\* is 'UNKNOWN' exactly when its query fails, each whatever the other does.
C17_SubQueriesDefaulted ==
    /\ Returned("getTokenBalance")
    /\ op.w.provider /\ op.w.tokenOk /\ op.w.walletOk
    /\ op.w.balance.ok /\ op.w.balance.v > 0
    =>  /\ ~op.out.threw
        /\ parseFloat(op.out.result.balance) > 0
        /\ op.out.result.decimals = (IF op.w.decimals.ok THEN op.w.decimals.v ELSE 18)
        /\ op.out.result.symbol = (IF op.w.symbol.ok THEN op.w.symbol.v ELSE "UNKNOWN")
        /\ op.out.result.balance
             = (IF op.w.decimals.ok /\ op.w.decimals.v = 15
                THEN [whole |-> op.w.balance.v, frac |-> <<0>>]
                ELSE formatUnits(op.w.balance.v))

\* the decimals query fails while the symbol query succeeds
C17_Witness ==
    /\ Returned("getTokenBalance")
    /\ op.w.provider /\ op.w.tokenOk /\ op.w.walletOk
    /\ op.w.balance = Ok(500)
    /\ ~op.w.decimals.ok /\ op.w.symbol = Ok("DAI")
    /\ op.out.result = [balance |-> [whole |-> 0, frac |-> <<5>>],
                        symbol |-> "DAI", decimals |-> 18]

\* the entries of the fixed list whose lookup resolves with a positive
\* balance and a symbol, and the place of such an entry among them
C18_Found == { i \in 1..6 : /\ op.w.lookups[i].ok
                            /\ parseFloat(op.w.lookups[i].v.balance) > 0
                            /\ op.w.lookups[i].v.symbol /= "" }

C18_Place(i) == Cardinality({ j \in C18_Found : j <= i })

C18_Native == IF parseFloat(op.w.eth.v) > 0 THEN 1 ELSE 0

\* C18: whichever token lookups reject, the tokens of the snapshot are the
\* native row (when the ETH balance is positive) followed by one row for
\* every entry of the fixed list whose lookup resolves with a positive
\* balance and a non-empty symbol, in the order of the list.
C18_TokenLoopIsolation ==
    Returned("fetchRealData") =>
        LET tokens == op.out.result.tokens
        IN  /\ Len(tokens) = C18_Native + Cardinality(C18_Found)
            /\ C18_Native = 1 => tokens[1].symbol = "ETH"
            /\ \A i \in C18_Found :
                  LET row == tokens[C18_Native + C18_Place(i)]
                  IN  /\ row.symbol = commonTokens[i].symbol
                      /\ row.balance = op.w.lookups[i].v.balance

\* the third lookup rejects and the five others find a balance
C18_Witness ==
    /\ Returned("fetchRealData")
    /\ ~op.w.lookups[3].ok
    /\ C18_Found = { 1, 2, 4, 5, 6 }
    /\ C18_Native = 1
    /\ Len(op.out.result.tokens) = 6

(***************************************************************************)
(* Claims about the price source, checked under PriceSpec                  *)
(***************************************************************************)
KeyOf(c) == cacheKey(calls[c].ids)

\* c enters fetchTokenPrices in this step
Enters(c) == calls[c].pc = "idle" /\ calls'[c].pc /= "idle"

\* C4: fetchTokenPrices never rejects; a call whose network request failed
\* resolves with the hard-coded fallback table, in which ethereum.usd is 3200
\* and uniswap.usd is 24.2, whichever ids were asked for.
C4_FallbackOnFailure ==
    \A c \in Callers :
        /\ calls[c].outcome /= "rejected"
        /\ calls[c].via = "failed" =>
              /\ calls[c].outcome = "resolved"
              /\ calls[c].result = fallbackPrices
              /\ calls[c].result["ethereum"].usd = 320000
              /\ calls[c].result["uniswap"].usd = 2420

\* a failed request for each of the id sequences has been answered
C4_Witness ==
    \A ids \in IdSeqs :
        \E c \in Callers : calls[c].ids = ids /\ calls[c].via = "failed"

\* C5: a call for a key that has a stored entry returns exactly the stored
\* data if and only if now - timestamp < 300000 ms; at 300000 ms or more it is
\* a miss: a fresh fetch is attempted and the entry stays in the map.
C5_Step ==
    \A c \in Callers :
        (Enters(c) /\ cacheKey(calls'[c].ids) \in DOMAIN cache) =>
            LET key == cacheKey(calls'[c].ids)
                fresh == now - cache[key].timestamp < 300000
            IN  /\ fresh <=> (calls'[c].pc = "done" /\ calls'[c].via = "cache")
                /\ fresh => calls'[c].result = cache[key].data
                /\ ~fresh => /\ calls'[c].pc \in {"waiting", "inflight"}
                             /\ key \in DOMAIN cache'
                             /\ cache'[key] = cache[key]

C5_CacheReadSemantics == [][C5_Step]_vars

\* one call was served from the cache, and another missed on an entry that
\* is 300000 ms old or older and still in the map
C5_Witness ==
    \E c1, c2 \in Callers :
        /\ calls[c1].via = "cache"
        /\ calls[c2].pc = "inflight"
        /\ KeyOf(c2) \in DOMAIN cache
        /\ calls[c2].startedAt - cache[KeyOf(c2)].timestamp >= 300000

\* C6, as claimed: callers that are at the rate-limit step together (each
\* entered before any other of them issued its request) issue their requests
\* at least 1000 ms apart, the Nth no earlier than (N-1) * 1000 ms after the
\* first.
SetMax(S) == CHOOSE x \in S : \A y \in S : y <= x
SetMin(S) == CHOOSE x \in S : \A y \in S : x <= y

C6_RateLimitSerializes ==
    \A S \in SUBSET Callers :
        (/\ Cardinality(S) >= 2
         /\ \A a \in S : calls[a].pc = "inflight"
         /\ \A a, b \in S : a /= b => calls[a].startedAt < calls[b].issuedAt)
        => LET at == { calls[a].issuedAt : a \in S }
           IN  SetMax(at) - SetMin(at) >= (Cardinality(S) - 1) * 1000

\* C7, as claimed: two calls entered at the same instant with the same id
\* sequence lead to at most one network request.
C7_SimultaneousCallsShareOneRequest ==
    \A c1, c2 \in Callers :
        (/\ c1 /= c2
         /\ calls[c1].pc /= "idle" /\ calls[c2].pc /= "idle"
         /\ calls[c1].ids = calls[c2].ids
         /\ calls[c1].startedAt = calls[c2].startedAt
         /\ calls[c1].pc = "inflight")
        => calls[c2].pc /= "inflight"

\* C8: on a cache hit no request is issued and no rate-limit wait starts, and
\* the cache map and lastRequestTime are left as they were.
C8_Step ==
    \A c \in Callers :
        (/\ Enters(c)
         /\ cacheKey(calls'[c].ids) \in DOMAIN cache
         /\ now - cache[cacheKey(calls'[c].ids)].timestamp < 300000)
        => /\ calls'[c].pc = "done"
           /\ calls'[c].issuedAt = 0
           /\ \A b \in Callers \ {c} : calls'[b] = calls[b]
           /\ cache' = cache
           /\ lastRequestTime' = lastRequestTime

C8_CacheHitFrame == [][C8_Step]_vars

\* a call was served from the cache after an earlier request had set
\* lastRequestTime
C8_Witness ==
    \E c \in Callers :
        /\ calls[c].pc = "done" /\ calls[c].via = "cache"
        /\ lastRequestTime > 0
        /\ now > lastRequestTime

\* C9: every cache entry holds the data of a successful response to a request
\* for the ids its key is computed from; the map changes only by storing such
\* a response under the requesting call's key; a failed fetch leaves the map
\* unchanged, so the fallback table is never cached and the next call for
\* that key goes to the network again.
C9_Entries ==
    \A k \in DOMAIN cache :
        /\ cache[k].data /= fallbackPrices
        /\ \E ids \in IdSeqs : k = cacheKey(ids) /\ cache[k].data \in NetTables(ids)

C9_Step ==
    /\ cache' /= cache =>
          \E c \in Callers :
              /\ calls[c].pc = "inflight"
              /\ calls'[c].via = "network"
              /\ cache' = (KeyOf(c) :> [data |-> calls'[c].result,
                                        timestamp |-> now]) @@ cache
    /\ \A c \in Callers :
          (calls[c].pc = "inflight" /\ calls'[c].via = "failed") => cache' = cache
    /\ \A c \in Callers :
          (Enters(c) /\ cacheKey(calls'[c].ids) \notin DOMAIN cache)
              => calls'[c].pc \in {"waiting", "inflight"}

C9_OnlyResponsesCached == [](C9_Entries) /\ [][C9_Step]_vars

\* a request failed, nothing was cached for its key, and a later call for the
\* same key is on the network
C9_Witness ==
    \E c1, c2 \in Callers :
        /\ c1 /= c2
        /\ calls[c1].via = "failed"
        /\ calls[c2].ids = calls[c1].ids
        /\ calls[c2].pc = "inflight"
        /\ KeyOf(c1) \notin DOMAIN cache
        /\ cache /= EmptyMap

(***************************************************************************)
(* Claims about the position readers, checked under ReaderSpec             *)
(***************************************************************************)
ExampleOf(name) ==
    IF name = "uniswap" THEN UniswapExample
    ELSE IF name = "aave" THEN AaveExample
    ELSE CompoundExample

\* some part of the reader's query failed, or there is no provider
SomeQueryFailed ==
    \/ ~reader.w.provider
    \/ /\ reader.name = "uniswap"
       /\ \/ ~reader.w.count.ok
          \/ \E i \in DOMAIN reader.w.detail : reader.w.detail[i] /= "ok"
    \/ /\ reader.name = "aave"
       /\ \E i \in DOMAIN reader.w.reserves : ~reader.w.reserves[i].ok
    \/ /\ reader.name = "compound"
       /\ \E i \in DOMAIN reader.w.ctokens : ~reader.w.ctokens[i].ok

OkDetails == { i \in DOMAIN reader.w.detail : reader.w.detail[i] = "ok" }

SignificantReserves ==
    { i \in DOMAIN reader.w.reserves :
        reader.w.reserves[i].ok /\ reader.w.reserves[i].v > 1 }

SignificantCTokens ==
    { i \in DOMAIN reader.w.ctokens :
        /\ reader.w.ctokens[i].ok
        /\ (reader.w.ctokens[i].v.balance * reader.w.ctokens[i].v.exchangeRate)
               \div 1000 > 1 }

C19_FailedIterations ==
    IF reader.name = "uniswap"
    THEN IF reader.w.count.ok
         THEN { i \in DOMAIN reader.w.detail : reader.w.detail[i] /= "ok" }
         ELSE {}
    ELSE IF reader.name = "aave"
    THEN { i \in DOMAIN reader.w.reserves : ~reader.w.reserves[i].ok }
    ELSE IF reader.name = "compound"
    THEN { i \in DOMAIN reader.w.ctokens : ~reader.w.ctokens[i].ok }
    ELSE {}

C19_Place(S, i) == Cardinality({ j \in S : j <= i })

\* C19: when queries fail in some iterations of a reader's loop, the reader
\* does not throw, still runs the iterations after them, and returns the
\* positions of the other iterations in loop order (the Compound reader
\* returning its example when no iteration gave a position).
C19_IterationIsolation ==
    reader.returned /\ reader.w.provider /\ C19_FailedIterations /= {} =>
        /\ ~reader.out.threw
        /\ reader.name = "uniswap" =>
              /\ reader.out.positions = [j \in 1..Cardinality(OkDetails) |-> UniswapExample]
              /\ \A i \in DOMAIN reader.w.detail :
                    \E q \in DOMAIN reader.out.queries :
                        reader.out.queries[q] = <<"tokenOfOwnerByIndex", i>>
        /\ reader.name = "aave" =>
              /\ Len(reader.out.positions) = Cardinality(SignificantReserves)
              /\ \A i \in SignificantReserves :
                    reader.out.positions[C19_Place(SignificantReserves, i)].token
                        = aaveAssets[i].symbol
        /\ reader.name = "compound" =>
              IF SignificantCTokens = {}
              THEN reader.out.positions = <<CompoundExample>>
              ELSE /\ Len(reader.out.positions) = Cardinality(SignificantCTokens)
                   /\ \A i \in SignificantCTokens :
                         reader.out.positions[C19_Place(SignificantCTokens, i)].token
                             = compoundTokens[i].underlying

\* the query of the second Aave asset fails between two assets with a
\* balance, and both are returned
C19_Witness ==
    /\ reader.name = "aave" /\ reader.returned /\ reader.w.provider
    /\ C19_FailedIterations = { 2 }
    /\ SignificantReserves = { 1, 3 }
    /\ Len(reader.out.positions) = 2
    /\ reader.out.positions[2].token = "DAI"

\* C20 as stated: no exported operation ends in a rejection.
C20_NoRejection ==
    /\ op.returned => ~op.out.threw
    /\ reader.returned => ~reader.out.threw
    /\ calls[1].outcome /= "rejected"

\* C20, amended: when their underlying call fails, fetchTokenPrices resolves
\* with the fallback table, getWalletAddress with null, getEthBalance with
\* '0', getTokenBalance with the zero result, and the three position
\* readers with a list; none of them rejects.  fetchTokenData rejects when
\* its request fails, and resolves with the response otherwise.
C20_FallbackExceptTokenData ==
    /\ calls[1].pc = "done" =>
          /\ calls[1].outcome = "resolved"
          /\ calls[1].via = "failed" => calls[1].result = fallbackPrices
    /\ Returned("getWalletAddress") =>
          /\ ~op.out.threw
          /\ ~op.w.accounts.ok => op.out.result = "null"
    /\ Returned("getEthBalance") =>
          /\ ~op.out.threw
          /\ ~op.w.balance.ok => op.out.result = [whole |-> 0, frac |-> <<>>]
    /\ Returned("getTokenBalance") =>
          /\ ~op.out.threw
          /\ ~op.w.balance.ok => op.out.result = NoBalance
    /\ reader.returned =>
          /\ ~reader.out.threw
          /\ DOMAIN reader.out.positions = 1..Len(reader.out.positions)
    /\ Returned("fetchTokenData") =>
          /\ op.out.threw <=> ~op.w.response.ok
          /\ op.w.response.ok => op.out.result = op.w.response.v

\* the request of fetchTokenData has failed and the call has rejected
C20_Witness ==
    /\ Returned("fetchTokenData")
    /\ ~op.w.response.ok
    /\ op.out.threw

(***************************************************************************)
(* Claims about the component's handlers (UiSpec)                          *)
(***************************************************************************)
\* an invocation of fetchPortfolioData whose caller has gone: the wallet is
\* no longer connected, or another address has been selected since
C21_Abandoned(r) ==
    runs[r].active /\ (~isConnected \/ runs[r].address /= walletAddress)

\* C21: the result of an abandoned invocation is discarded: while no wallet
\* is connected portfolioData is the empty snapshot, and the step that ends
\* an abandoned invocation leaves portfolioData as it was.
C21_AbandonedResultDiscarded ==
    /\ [](~isConnected => portfolioData = EmptySnapshot)
    /\ [][\A r \in RunIds :
             (C21_Abandoned(r) /\ ~runs'[r].active)
                 => portfolioData' = portfolioData]_vars

(***************************************************************************)
(* Claims about repeated aggregations (RepeatSpec)                         *)
(***************************************************************************)
\* aggregation k + 1 has returned and its price call was served by the cache
C22_WarmRepeat(k) ==
    /\ op.name = "aggregate"
    /\ Len(op.snaps) >= k + 1
    /\ calls[k + 1].via = "cache"

\* C22: when an aggregation follows another of the same address on the same
\* chain responses and its price call is a cache hit, the two snapshots have
\* the same tokens, positions, totalValue and totalYield.
C22_RepeatIdentical ==
    \A k \in 1..(NumCallers - 1) :
        C22_WarmRepeat(k) =>
            /\ op.snaps[k + 1].tokens = op.snaps[k].tokens
            /\ op.snaps[k + 1].defiPositions = op.snaps[k].defiPositions
            /\ op.snaps[k + 1].totalValue = op.snaps[k].totalValue
            /\ op.snaps[k + 1].totalYield = op.snaps[k].totalYield

\* a merged snapshot priced by the network, repeated from the cache, before
\* a third aggregation that missed the expired entry and differs
C22_Witness ==
    /\ C22_WarmRepeat(1)
    /\ calls[1].via = "network"
    /\ Len(op.snaps[1].tokens) = 2
    /\ op.snaps[1] /= fetchMockData
    /\ Len(op.snaps) = 3
    /\ calls[3].via = "network"
    /\ op.snaps[3] /= op.snaps[2]

(***************************************************************************)
(* Claims about the cache and the rate-limit clock (LibrarySpec)           *)
(***************************************************************************)
\* a step of clearCache: it is the only one that leaves the map empty
C23_Cleared == cache /= EmptyMap /\ cache' = EmptyMap

\* the keys of the entries that have expired
C23_Expired == { k \in DOMAIN cache : now - cache[k].timestamp >= CACHE_DURATION }

\* a call of fetchTokenPrices has just stored the response
C23_Stored(c) == calls[c].pc = "inflight" /\ calls'[c].via = "network"

C23_Step ==
    ~C23_Cleared =>
        /\ getCacheStats.entries \subseteq getCacheStats'.entries
        /\ \A k \in DOMAIN cache :
              cache'[k] /= cache[k] =>
                  /\ getCacheStats'.size = getCacheStats.size
                  /\ C23_Stored(1) /\ k = "prices_" \o join(calls[1].ids, ",")
                  /\ cache'[k].timestamp = now
        /\ (now' /= now \/ ~C23_Stored(1)) => getCacheStats' = getCacheStats

\* C23: a step other than clearCache never removes a key reported by
\* getCacheStats, be the entry expired or not; a store for a key that is
\* present replaces the entry and keeps the size; the passage of time and
\* reads change nothing that getCacheStats reports; and size counts every
\* entry, the expired ones included.
C23_ExpiredEntriesStay ==
    /\ [](getCacheStats.size = Cardinality(DOMAIN cache)
          /\ C23_Expired \subseteq getCacheStats.entries)
    /\ [][C23_Step]_vars

\* two entries, one of them expired and just missed by a read of its key
C23_Witness ==
    /\ getCacheStats.size = 2
    /\ Cardinality(C23_Expired) = 1
    /\ calls[1].pc = "inflight"
    /\ "prices_" \o join(calls[1].ids, ",") \in C23_Expired

\* the key of an id sequence, written out
C24_Literal(ids) ==
    IF ids = <<"ethereum", "uniswap">> THEN "prices_ethereum,uniswap"
    ELSE IF ids = <<"uniswap", "ethereum">> THEN "prices_uniswap,ethereum"
    ELSE "prices_"

C24_Step ==
    \* a call is entered: it is served from the cache only by an entry under
    \* the key of its own order, and otherwise goes on to its own request
    /\ (calls[1].pc = "idle" /\ calls'[1].pc /= "idle") =>
          IF C24_Literal(calls'[1].ids) \in DOMAIN cache
             /\ now - cache[C24_Literal(calls'[1].ids)].timestamp < CACHE_DURATION
          THEN /\ calls'[1].via = "cache"
               /\ calls'[1].result = cache[C24_Literal(calls'[1].ids)].data
          ELSE calls'[1].pc \in { "waiting", "inflight" }
    \* a response is stored under the key of the call's own order
    /\ (calls[1].pc = "inflight" /\ calls'[1].via = "network") =>
          /\ DOMAIN cache' = DOMAIN cache \cup { C24_Literal(calls[1].ids) }
          /\ cache'[C24_Literal(calls[1].ids)].data = calls'[1].result
          /\ \A k \in DOMAIN cache :
                k /= C24_Literal(calls[1].ids) => cache'[k] = cache[k]

\* C24: the cache key is the join of the ids in the caller's order: a call
\* is a hit only on the entry of its own order, a call for the same ids in
\* another order misses and issues its own request, and its response is
\* stored as a second entry beside the first.
C24_KeyIsOrderedJoin ==
    /\ [](DOMAIN cache \subseteq { C24_Literal(ids) : ids \in IdSeqs })
    /\ [][C24_Step]_vars

\* both orders of the same two ids have been answered by the network, the
\* second while the entry of the first was fresh
C24_Witness ==
    /\ DOMAIN cache = { "prices_ethereum,uniswap", "prices_uniswap,ethereum" }
    /\ calls[1].pc = "done" /\ calls[1].via = "network"
    /\ cache[C24_Literal(calls[1].ids)].timestamp = now
    /\ \A k \in DOMAIN cache : now - cache[k].timestamp < CACHE_DURATION
    /\ \E k \in DOMAIN cache : cache[k].timestamp < now

\* the call c issues its network request in this step
C25_Issues(c) == calls[c].pc /= "inflight" /\ calls'[c].pc = "inflight"

\* C25: fetchTokenPrices, for whatever key, and fetchTokenData share one
\* rate-limit clock: when calls do not overlap, a network request of either
\* function is issued at least 1000 ms after the previous request of either
\* function, and lastRequestTime is the time of that latest request.
C25_SharedRateLimitClock ==
    [][\A c \in Callers :
          C25_Issues(c) =>
              /\ now - lastRequestTime >= 1000
              /\ lastRequestTime' = now
              /\ calls'[c].issuedAt = now]_vars

\* fetchTokenData was entered 500 ms after a request of fetchTokenPrices
\* that has been answered, slept, and has just issued its request
C25_Witness ==
    /\ calls[NumCallers].pc = "inflight"
    /\ calls[NumCallers].startedAt = StartTime + 500
    /\ calls[NumCallers].issuedAt = StartTime + 1000
    /\ lastRequestTime = StartTime + 1000
    /\ calls[1].via = "network"
    /\ \E k \in DOMAIN cache : cache[k].timestamp = StartTime + 500

C27_TrackedId ==
    ("UNI" :> "uniswap") @@ ("AAVE" :> "aave") @@
    ("COMP" :> "compound-governance-token") @@ ("DAI" :> "dai") @@
    ("USDT" :> "tether") @@ ("WETH" :> "weth")

\* C27: every row of a listed token with a positive balance carries the USD
\* price that the price result holds under the token's tracked asset
\* identifier, whenever the result has that identifier, and a value of
\* balance times that price.
C27_PriceByTrackedId ==
    Returned("fetchRealData") =>
        \A i \in C18_Found :
            LET row == op.out.result.tokens[C18_Native + C18_Place(i)]
                id == C27_TrackedId[commonTokens[i].symbol]
            IN  id \in DOMAIN op.w.prices =>
                    /\ row.price = op.w.prices[id].usd
                    /\ row.value = Times(parseFloat(row.balance), op.w.prices[id].usd)

\* C28: the invocation of fetchPortfolioData that toggleDataSource starts
\* for a connected wallet loads from the source just selected: 'mock' gives
\* the demonstration snapshot, 'real' runs fetchRealData.
C28_ToggleLoadsNewSource ==
    [][dataSource' /= dataSource =>
          \A r \in RunIds :
              (~runs[r].active /\ runs'[r].active) =>
                  runs'[r].source = dataSource']_vars

C29_Step ==
    \* the step that removes entries removes them all and nothing else moves
    /\ DOMAIN cache' /= DOMAIN cache \cup DOMAIN cache' =>
          /\ cache' = EmptyMap
          /\ getCacheStats' = [size |-> 0, entries |-> {}]
          /\ lastRequestTime' = lastRequestTime
          /\ now' = now /\ calls' = calls
    \* a call entered on the empty cache is a miss, held back by the clock
    /\ (cache = EmptyMap /\ calls[1].pc = "idle" /\ calls'[1].pc /= "idle") =>
          IF now - lastRequestTime >= 1000
          THEN calls'[1].pc = "inflight"
          ELSE /\ calls'[1].pc = "waiting"
               /\ calls'[1].wakeAt = lastRequestTime + 1000

\* C29: clearCache empties the cache, so getCacheStats reports size 0 and the
\* next fetchTokenPrices call misses and goes to the network; it leaves
\* lastRequestTime alone, so that request still keeps 1000 ms from the one
\* before.
C29_ClearCacheFrame ==
    [][C29_Step]_vars

\* the cache has been cleared while the call whose response it held has not
\* returned yet, less than 1000 ms after that call's request
C29_Witness ==
    /\ cache = EmptyMap
    /\ getCacheStats.size = 0
    /\ calls[1].pc = "done" /\ calls[1].via = "network"
    /\ lastRequestTime = StartTime
    /\ now - lastRequestTime < 1000

\* the invocations of fetchPortfolioData in flight
C30_Active == { r \in RunIds : runs[r].active }

\* what an invocation may place into portfolioData
C30_Results(source) ==
    IF source = "real" THEN { fetchRealData(w) : w \in UiWorlds }
    ELSE { fetchMockData }

\* an invocation sets isLoading when it begins; when it ends it has placed a
\* snapshot of its source into portfolioData and cleared isLoading; and
\* while it is the only one in flight no step clears isLoading, unless excused
C30_Step(excused) ==
    /\ \A r \in RunIds :
          (~runs[r].active /\ runs'[r].active) => isLoading'
    /\ \A r \in RunIds :
          (runs[r].active /\ ~runs'[r].active) =>
              /\ portfolioData' \in C30_Results(runs[r].source)
              /\ ~isLoading'
    /\ \A r \in RunIds :
          (C30_Active = {r} /\ C30_Active' = {r}) =>
              (isLoading => (isLoading' \/ excused))

\* C30 as stated: every invocation of fetchPortfolioData ends, with
\* portfolioData set to a snapshot and isLoading false, and an invocation
\* that is the only one in flight has isLoading true from its start to its end.
C30_LoadingWhileAlone ==
    /\ \A r \in RunIds : runs[r].active ~> ~runs[r].active
    /\ [][C30_Step(FALSE)]_vars

\* C30, amended: as above, except that a connectWallet whose wallet request
\* settles while the invocation is in flight may clear isLoading before the
\* invocation ends.
C30_TerminatesAndSignals ==
    /\ \A q \in RunIds : runs[q].active ~> ~runs[q].active
    /\ [][C30_Step(connecting /= "none" /\ connecting' = "none")]_vars

\* a load of a connected wallet has ended with a merged snapshot
C30_Witness ==
    /\ isConnected /\ ~isLoading
    /\ C30_Active = {}
    /\ portfolioData = fetchRealData(FundedWorld)
    /\ portfolioData /= fetchMockData

\* the lookups of the fixed list that resolved with the zero result
C31_ZeroResults ==
    { i \in 1..Len(commonTokens) :
        op.w.lookups[i] = Ok([balance |-> [whole |-> 0, frac |-> <<>>],
                              symbol |-> "", decimals |-> 18]) }

\* C31: in a merged snapshot every token row has a balance that parses to
\* more than 0 and a non-empty symbol; the ETH row is there exactly when the
\* native balance parses to more than 0, and then it is the first row and
\* the only ETH row; a listed token whose lookup gave the zero result has
\* no row.
C31_OnlyPositiveRows ==
    (Returned("fetchRealData") /\ op.out.result /= fetchMockData) =>
        LET tokens == op.out.result.tokens
            native == { j \in DOMAIN tokens : tokens[j].symbol = "ETH" }
        IN  /\ \A j \in DOMAIN tokens :
                  /\ parseFloat(tokens[j].balance) > 0
                  /\ tokens[j].symbol /= ""
            /\ native = IF parseFloat(op.w.eth.v) > 0 THEN {1} ELSE {}
            /\ native = {1} => tokens[1].balance = op.w.eth.v
            /\ \A i \in C31_ZeroResults :
                  \A j \in DOMAIN tokens :
                      tokens[j].symbol /= commonTokens[i].symbol

\* a wallet with ETH, two listed tokens, a token whose contract reports an
\* empty symbol and three zero results
C31_Witness ==
    /\ Returned("fetchRealData")
    /\ parseFloat(op.w.eth.v) > 0
    /\ C31_ZeroResults = { 1, 3, 5 }
    /\ op.w.lookups[2].ok /\ op.w.lookups[2].v.symbol = "AAVE"
    /\ op.w.lookups[4].ok /\ op.w.lookups[4].v.symbol = ""
    /\ parseFloat(op.w.lookups[4].v.balance) > 0
    /\ op.w.lookups[6].ok /\ op.w.lookups[6].v.symbol = "WETH"
    /\ Len(op.out.result.tokens) = 3

(***************************************************************************)
(* Further claims about the position readers (ReaderSpec)                  *)
(***************************************************************************)
\* a reader called with a provider has returned
C32_Returned(name) ==
    reader.name = name /\ reader.returned /\ reader.w.provider

\* the cTokens whose underlying amount is above 0.001
C32_Significant ==
    { i \in 1..3 :
        /\ reader.w.ctokens[i].ok
        /\ (reader.w.ctokens[i].v.balance * reader.w.ctokens[i].v.exchangeRate)
               \div 1000 > 1 }

\* C32: with a provider, getCompoundPositions never returns the empty list:
\* when no cToken gives a significant position, because its queries failed
\* or because the balances are zero, it returns its static example alone.
\* getUniswapPositions with a position count of zero, and getAavePositions
\* with every query succeeding and no significant balance, return the empty
\* list.
C32_CompoundNeverEmpty ==
    /\ C32_Returned("compound") =>
          /\ ~reader.out.threw
          /\ Len(reader.out.positions) = IF C32_Significant = {} THEN 1
                                         ELSE Cardinality(C32_Significant)
          /\ C32_Significant = {} =>
                /\ reader.out.positions[1].amount = <<Part(Str(0, <<8>>), "ETH")>>
                /\ reader.out.positions[1].value = Money(2560, 0)
                /\ reader.out.positions[1].yield = Money(71, 68)
                /\ reader.out.positions[1].token = "ETH"
    /\ (C32_Returned("uniswap") /\ reader.w.count = Ok(0)) =>
          reader.out.positions = <<>>
    /\ (C32_Returned("aave")
        /\ \A i \in 1..3 : reader.w.reserves[i].ok /\ reader.w.reserves[i].v <= 1) =>
          reader.out.positions = <<>>

\* every cToken query succeeded with a zero balance and the example came back
C32_Witness ==
    /\ C32_Returned("compound")
    /\ \A i \in 1..3 : reader.w.ctokens[i].ok /\ reader.w.ctokens[i].v.balance = 0
    /\ Len(reader.out.positions) = 1
    /\ reader.out.positions[1].value = Money(2560, 0)

\* getUniswapPositions returned after balanceOf reported a count
C33_Reported ==
    /\ reader.name = "uniswap" /\ reader.returned
    /\ reader.w.provider /\ reader.w.count.ok

C33_IsTokenQuery(q) == q[1] = "tokenOfOwnerByIndex"

\* C33: getUniswapPositions returns at most min(n, 10) positions, n being
\* the count balanceOf reports, and after balanceOf it queries
\* tokenOfOwnerByIndex once for each index 0 .. min(n, 10) - 1, in increasing
\* order, a positions query only right after the tokenOfOwnerByIndex query
\* of the same index, and nothing for any other index.
C33_AtMostTenPositions ==
    C33_Reported =>
        LET n == reader.w.count.v
            cap == IF n < 10 THEN n ELSE 10
            asked == reader.out.queries
        IN  /\ Len(reader.out.positions) <= cap
            /\ Len(asked) >= 1 /\ asked[1] = <<"balanceOf">>
            /\ \A k \in 2..Len(asked) :
                  /\ asked[k][1] \in {"tokenOfOwnerByIndex", "positions"}
                  /\ asked[k][2] \in 0..(cap - 1)
                  /\ asked[k][1] = "positions" =>
                        asked[k - 1] = <<"tokenOfOwnerByIndex", asked[k][2]>>
            /\ SelectSeq(asked, C33_IsTokenQuery)
                   = [k \in 1..cap |-> <<"tokenOfOwnerByIndex", k - 1>>]

\* more than 10 position NFTs are reported and 10 rows come back
C33_Witness ==
    /\ C33_Reported
    /\ reader.w.count.v > 10
    /\ Len(reader.out.positions) = 10
    /\ Len(reader.out.queries) = 21


=============================================================================
